---- MODULE Spec2Model ----
(***************************************************************************)
(* ShinCrypt: the streaming cipher adapters, the fixed-width file header   *)
(* codec and the encrypt_file / decrypt_file orchestration of              *)
(* src/src/logic/encryption.rs, as a state machine.                        *)
(*                                                                         *)
(* Bytes.  A byte is a record [v, m]: v is the plaintext value (0..255)    *)
(* and m the set of keystream positions that have been XOR-ed onto it, a   *)
(* position being <<password, salt, nonce, offset>>.  XOR is an            *)
(* involution, so applying a position a second time removes it (symmetric  *)
(* difference); a byte is readable exactly when m = {}.  Text and header   *)
(* bytes carry their ASCII code in v; 255 stands for a byte that is never  *)
(* valid UTF-8.                                                            *)
(*                                                                         *)
(* Sizes.  The program's 1 MiB unit (SIZE_1MB, hence CHUNK and             *)
(* FILE_HEADER_SIZE), the 16-bit range of the header's length fields and   *)
(* the standard library's 8 KiB I/O buffer are scaled down, keeping their  *)
(* order: salt line + nonce < I/O buffer < CHUNK = FILE_HEADER_SIZE, and   *)
(* 16-bit range < FILE_HEADER_SIZE.                                        *)
(***************************************************************************)
EXTENDS Integers, Sequences, FiniteSets, TLC

\* ------------------------------------------------------------ sizes
ScaledMB == 32
ScaledU16 == 16
ScaledIoBuf == 28

SIZE_1MB == ScaledMB
FILE_HEADER_SIZE == SIZE_1MB
CHUNK == SIZE_1MB
NONCE_SIZE == 24
ENCRYPTION_VERSION == 1
\* "snc"
ENCRYPTION_EXT == <<115, 110, 99>>
\* EncMethod::XChaCha20 as u16
XChaCha20 == 1
\* the range of u16 (`as u16` keeps the value modulo this)
U16_RANGE == ScaledU16
\* std::io::DEFAULT_BUF_SIZE: BufReader's capacity and io::copy's buffer
DEFAULT_BUF_SIZE == ScaledIoBuf

\* ------------------------------------------------------------ sequences
Min(a, b) == IF a < b THEN a ELSE b

Take(s, n) == SubSeq(s, 1, Min(n, Len(s)))

Drop(s, n) == SubSeq(s, n + 1, Len(s))

Zeros(n) == [i \in 1..n |-> 0]

\* plain bytes (nothing XOR-ed on) from their values, and back
Plain(vals) == [i \in 1..Len(vals) |-> [v |-> vals[i], m |-> {}]]

Vals(cells) == [i \in 1..Len(cells) |-> cells[i].v]

IsPlain(cells) == \A i \in 1..Len(cells) : cells[i].m = {}

\* ------------------------------------------------------------ cipher
\* chacha20::XChaCha20::new(key, nonce); the key is Argon2(password, salt)
CipherNew(pw, salt, nonce) == [pw |-> pw, salt |-> salt, nonce |-> nonce, pos |-> 0]

SymDiff(a, b) == (a \ b) \cup (b \ a)

\* cipher.apply_keystream(data): byte i of data gets keystream position
\* pos + i, and the cipher advances by the length of data
KeystreamApplied(c, data) ==
  [i \in 1..Len(data) |->
     [v |-> data[i].v,
      m |-> SymDiff(data[i].m, {<<c.pw, c.salt, c.nonce, c.pos + i - 1>>})]]

\* a cipher that starts over instead of moving on
CipherRewound(c, n) == [c EXCEPT !.pos = 0]

CipherAdvanced(c, n) == [c EXCEPT !.pos = c.pos + n]

\* ------------------------------------------------------------ file header
AsU16(n) == n % U16_RANGE

\* u16::to_le_bytes / u16::from_le_bytes
ToLeBytes(x) == <<x % 256, x \div 256>>

FromLeBytes(b) == b[1] + 256 * b[2]

BoolU16(b) == IF b THEN 1 ELSE 0

\* str / String::from_utf8: the bytes of the model are ASCII or 255
ValidUtf8(s) == \A i \in 1..Len(s) : s[i] < 128

\* FileHeader::new: path.to_str().unwrap() panics on a non-UTF-8 path
FileHeaderNew(packed, file, version, encryption, name, path) ==
  IF ~ValidUtf8(path)
    THEN [kind |-> "panic"]
    ELSE [kind |-> "ok",
          h |-> [packed |-> packed, file |-> file, version |-> version,
                 encryption |-> encryption,
                 name_len |-> AsU16(Len(name)), name |-> name,
                 path_len |-> AsU16(Len(path)), path |-> path]]

\* FileHeader::to_vec: the fields are copied one after the other into a
\* zeroed buffer of FILE_HEADER_SIZE bytes; a slice that ends past the
\* buffer panics (slice index out of range)
ToVec(h) ==
  LET laid == ToLeBytes(BoolU16(h.packed)) \o ToLeBytes(BoolU16(h.file))
              \o ToLeBytes(h.version) \o ToLeBytes(h.encryption)
              \o ToLeBytes(AsU16(Len(h.name))) \o h.name
              \o ToLeBytes(h.path_len) \o h.path
  IN IF Len(laid) > FILE_HEADER_SIZE
       THEN [kind |-> "panic"]
       ELSE [kind |-> "ok", bytes |-> laid \o Zeros(FILE_HEADER_SIZE - Len(laid))]

\* a lookup that takes the tag 0 for the default method
EncMethodOrDefault(num) == IF num <= 1 THEN [some |-> TRUE, m |-> XChaCha20]
                                       ELSE [some |-> FALSE, m |-> 0]

\* EncMethod::from_u16
EncMethodFromU16(num) == IF num = 1 THEN [some |-> TRUE, m |-> XChaCha20]
                                    ELSE [some |-> FALSE, m |-> 0]

HdrErr(msg) == [kind |-> "err", msg |-> msg]

\* FileHeader::from_vec after its length check: the fields are taken one
\* after the other, the method tag is looked up last
RecordFields(vec) ==
    LET Get(a, n) == IF a + n <= Len(vec) THEN SubSeq(vec, a + 1, a + n) ELSE <<>>
        Has(a, n) == a + n <= Len(vec)
        packed == FromLeBytes(Get(0, 2)) # 0
        file == FromLeBytes(Get(2, 2)) # 0
        version == FromLeBytes(Get(4, 2))
        encryption_num == FromLeBytes(Get(6, 2))
        name_len == FromLeBytes(Get(8, 2))
        name == Get(10, name_len)
        p1 == 10 + name_len
        path_len == FromLeBytes(Get(p1, 2))
        p2 == p1 + 2
        path == Get(p2, path_len)
        enc == EncMethodFromU16(encryption_num)
    IN IF ~Has(8, 2) THEN HdrErr("Failed to get slice")
       ELSE IF ~Has(10, name_len) THEN HdrErr("Failed to get slice")
       ELSE IF ~ValidUtf8(name) THEN HdrErr("Invalid UTF-8 in name")
       ELSE IF ~Has(p1, 2) THEN HdrErr("Failed to get slice")
       ELSE IF ~Has(p2, path_len) THEN HdrErr("Failed to get slice")
       ELSE IF ~ValidUtf8(path) THEN HdrErr("Invalid UTF-8 in name")
       ELSE IF ~enc.some THEN HdrErr("Invalid encryption method")
       ELSE [kind |-> "ok",
             h |-> [packed |-> packed, file |-> file, version |-> version,
                    encryption |-> enc.m,
                    name_len |-> name_len, name |-> name,
                    path_len |-> path_len, path |-> path]]

\* a from_vec that takes the record from the front of any input that is
\* long enough
FromVecOfFront(vec) ==
  IF Len(vec) < FILE_HEADER_SIZE THEN HdrErr("Incorrect header")
  ELSE RecordFields(Take(vec, FILE_HEADER_SIZE))

\* FileHeader::from_vec
FromVec(vec) ==
  IF Len(vec) # FILE_HEADER_SIZE THEN HdrErr("Incorrect header")
  ELSE RecordFields(vec)

\* ------------------------------------------------------------ progress
\* A progress sample: the cumulative byte count n over the total d, or the
\* raw count when the total is unknown (d = -1).  The f64 quotient itself is
\* not computed; samples are compared through n and d.
NoTotal == -1

\* a sink that reports what is left instead of what is done
SampleRemaining(processed, total) == [n |-> total - processed, d |-> total]

Sample(processed, total) == [n |-> processed, d |-> total]

\* a sink that reports only fractions, and nothing while the total is unknown
SendProgressOfKnownTotal(sender, processed, total) ==
  IF sender = "none" \/ total = NoTotal THEN [res |-> "ok", sent |-> <<>>]
  ELSE IF sender = "dropped" THEN [res |-> "panic", sent |-> <<>>]
  ELSE [res |-> "ok", sent |-> <<Sample(processed, total)>>]

\* send_progress_update: nothing without a sender; with one,
\* sender.send(progress).unwrap() panics when the receiver is gone.
\* sender is "none", "live" or "dropped".
SendProgress(sender, processed, total) ==
  IF sender = "none" THEN [res |-> "ok", sent |-> <<>>]
  ELSE IF sender = "dropped" THEN [res |-> "panic", sent |-> <<>>]
  ELSE [res |-> "ok", sent |-> <<Sample(processed, total)>>]

\* ------------------------------------------------------------ encrypting sink
\* EncryptingWriter::new
EncryptingWriterNew(cipher) ==
  [cipher |-> cipher, buffer |-> <<>>, sender |-> "none",
   total_bytes_processed |-> 0, total_input_size |-> NoTotal]

\* The loop of EncryptingWriter::write.  st = [w, out, lens, sent, writes,
\* res]: the sink, the bytes handed to the inner writer, the length of each
\* write_all that took them, the samples sent, the number of inner
\* write_all calls made, and the outcome.  failAt is the
\* inner write_all call (counted from 1 within this call) that fails, 0 for
\* none.  The chunk is transformed in place in the buffer before it is
\* written, and drained only after the write succeeded.
RECURSIVE WriteLoop(_, _)
WriteLoop(st, failAt) ==
  IF st.res # "ok" \/ Len(st.w.buffer) < CHUNK THEN st
  ELSE
    LET w == st.w
        chunk == KeystreamApplied(w.cipher, Take(w.buffer, CHUNK))
        w1 == [w EXCEPT !.cipher = CipherAdvanced(w.cipher, CHUNK),
                        !.buffer = chunk \o Drop(w.buffer, CHUNK)]
    IN IF st.writes + 1 = failAt
         THEN [st EXCEPT !.w = w1, !.writes = st.writes + 1, !.res = "err"]
         ELSE
           LET w2 == [w1 EXCEPT !.buffer = Drop(w1.buffer, CHUNK),
                                !.total_bytes_processed = w1.total_bytes_processed + CHUNK]
               p == SendProgress(w2.sender, w2.total_bytes_processed, w2.total_input_size)
           IN WriteLoop([w |-> w2, out |-> st.out \o chunk,
                         lens |-> Append(st.lens, Len(chunk)), sent |-> st.sent \o p.sent,
                         writes |-> st.writes + 1, res |-> p.res], failAt)

\* a write that hands on at once whatever it holds, in one piece
WriterWriteEager(w, buf, failAt) ==
  LET data == KeystreamApplied(w.cipher, w.buffer \o buf)
      w2 == [w EXCEPT !.cipher = CipherAdvanced(w.cipher, Len(data)),
                      !.total_bytes_processed = w.total_bytes_processed + Len(data)]
      p == SendProgress(w2.sender, w2.total_bytes_processed, w2.total_input_size)
  IN [w |-> w2, out |-> data, lens |-> <<Len(data)>>, sent |-> p.sent,
      writes |-> 1, res |-> p.res]

\* EncryptingWriter::write(buf)
WriterWrite(w, buf, failAt) ==
  WriteLoop([w |-> [w EXCEPT !.buffer = w.buffer \o buf],
             out |-> <<>>, lens |-> <<>>, sent |-> <<>>, writes |-> 0, res |-> "ok"], failAt)

\* a flush that writes its buffer and keeps it
WriterFlushKeeping(w, failWrite, failFlush) ==
  IF w.buffer = <<>>
    THEN [w |-> w, out |-> <<>>, lens |-> <<>>, sent |-> <<>>, writes |-> 0, res |-> "ok"]
    ELSE
      LET remaining == Len(w.buffer)
          w2 == [w EXCEPT !.cipher = CipherAdvanced(w.cipher, remaining),
                          !.total_bytes_processed = w.total_bytes_processed + remaining]
          p == SendProgress(w2.sender, w2.total_bytes_processed, w2.total_input_size)
      IN [w |-> w2, out |-> KeystreamApplied(w.cipher, w.buffer), lens |-> <<remaining>>,
          sent |-> p.sent, writes |-> 1, res |-> p.res]

\* EncryptingWriter::flush.  failWrite: the inner write_all fails (unwrap
\* panics); failFlush: the inner flush fails (returned as an error).
WriterFlush(w, failWrite, failFlush) ==
  LET st0 == [w |-> w, out |-> <<>>, lens |-> <<>>, sent |-> <<>>, writes |-> 0, res |-> "ok"]
      st1 ==
        IF w.buffer = <<>> THEN st0
        ELSE
          LET remaining == Len(w.buffer)
              data == KeystreamApplied(w.cipher, w.buffer)
              w1 == [w EXCEPT !.cipher = CipherAdvanced(w.cipher, remaining),
                              !.buffer = data]
          IN IF failWrite
               THEN [st0 EXCEPT !.w = w1, !.writes = 1, !.res = "panic"]
               ELSE
                 LET w2 == [w1 EXCEPT !.buffer = <<>>,
                                      !.total_bytes_processed = w1.total_bytes_processed + remaining]
                     p == SendProgress(w2.sender, w2.total_bytes_processed, w2.total_input_size)
                 IN [w |-> w2, out |-> data, lens |-> <<Len(data)>>, sent |-> p.sent,
                     writes |-> 1, res |-> p.res]
  IN IF st1.res = "ok" /\ failFlush THEN [st1 EXCEPT !.res = "err"] ELSE st1

\* ------------------------------------------------------------ decrypting source
\* DecryptingReader::new
DecryptingReaderNew(cipher) ==
  [cipher |-> cipher, buffer |-> <<>>, pos |-> 0, sender |-> "none",
   total_bytes_processed |-> 0, total_input_size |-> NoTotal]

\* a source that refills while one decrypted byte is still unserved
NeedsRefillEarly(r) == r.pos + 1 >= Len(r.buffer)

\* read refills (calls inner.read) exactly when the cursor is at the end
NeedsRefill(r) == r.pos = Len(r.buffer)

\* what inner.read(&mut buffer[..CHUNK]) gave: bytes, or an error
Got(data) == [kind |-> "ok", data |-> data]

GotErr == [kind |-> "err", data |-> <<>>]

\* The tail of DecryptingReader::read: serve from the buffer at the cursor.
\* buffer.len() - pos underflows (a panic) when the cursor is past the end.
Serve(r, buflen, sent) ==
  IF r.pos > Len(r.buffer)
    THEN [r |-> r, data |-> <<>>, sent |-> sent, res |-> "panic"]
    ELSE LET n == Min(buflen, Len(r.buffer) - r.pos)
         IN [r |-> [r EXCEPT !.pos = r.pos + n],
             data |-> SubSeq(r.buffer, r.pos + 1, r.pos + n),
             sent |-> sent, res |-> "ok"]

\* a read that, after a short inner read, keeps the whole CHUNK-sized
\* buffer instead of the n bytes read
ReaderReadUntruncated(r, buflen, got) ==
  IF ~NeedsRefill(r) THEN Serve(r, buflen, <<>>)
  ELSE IF got.kind = "err" \/ got.data = <<>>
    THEN [r |-> [r EXCEPT !.buffer = <<>>], data |-> <<>>, sent |-> <<>>,
          res |-> IF got.kind = "err" THEN "panic" ELSE "ok"]
  ELSE Serve([r EXCEPT !.buffer = KeystreamApplied(r.cipher,
                                     got.data \o Plain(Zeros(CHUNK - Len(got.data)))),
                       !.cipher = CipherAdvanced(r.cipher, CHUNK),
                       !.pos = 0], buflen, <<>>)

\* a read that spends a whole chunk of keystream on every refill, however
\* few bytes the inner read gave
ReaderReadChunkOfKeystream(r, buflen, got) ==
  IF ~NeedsRefill(r) THEN Serve(r, buflen, <<>>)
  ELSE IF got.kind = "err" \/ got.data = <<>>
    THEN [r |-> [r EXCEPT !.buffer = <<>>], data |-> <<>>, sent |-> <<>>,
          res |-> IF got.kind = "err" THEN "panic" ELSE "ok"]
  ELSE Serve([r EXCEPT !.buffer = KeystreamApplied(r.cipher, got.data),
                       !.cipher = CipherAdvanced(r.cipher, CHUNK),
                       !.pos = 0], buflen, <<>>)

\* DecryptingReader::read(buf) with buf.len() = buflen; got is used only
\* when the call refills.  The result's data is what was copied into buf
\* (Ok(Len(data))).
ReaderRead(r, buflen, got) ==
  IF ~NeedsRefill(r) THEN Serve(r, buflen, <<>>)
  ELSE IF got.kind = "err"
    THEN [r |-> [r EXCEPT !.buffer = Plain(Zeros(CHUNK))], data |-> <<>>, sent |-> <<>>, res |-> "panic"]
  ELSE IF got.data = <<>>
    THEN [r |-> [r EXCEPT !.buffer = <<>>], data |-> <<>>, sent |-> <<>>, res |-> "ok"]
  ELSE
    LET n == Len(got.data)
        r1 == [r EXCEPT !.buffer = KeystreamApplied(r.cipher, got.data),
                        !.cipher = CipherAdvanced(r.cipher, n),
                        !.pos = 0,
                        !.total_bytes_processed = r.total_bytes_processed + n]
        p == SendProgress(r1.sender, r1.total_bytes_processed, r1.total_input_size)
    IN IF p.res # "ok"
         THEN [r |-> r1, data |-> <<>>, sent |-> <<>>, res |-> "panic"]
         ELSE Serve(r1, buflen, p.sent)

\* ------------------------------------------------------------ paths
\* A path is <<directory, file name>>, both byte strings; PathBuf equality
\* is equality of the pair.
DOT == <<46>>

SLASH == <<47>>

PathStr(p) == p[1] \o SLASH \o p[2]

\* the last index of a '.' in name, 0 when there is none
LastDot(name) ==
  LET dots == {i \in 1..Len(name) : name[i] = 46}
  IN IF dots = {} THEN 0 ELSE CHOOSE i \in dots : \A j \in dots : j <= i

\* Path::file_stem of a file name: the part before the last '.', the whole
\* name when it has no '.' or only a leading one
FileStem(name) == IF LastDot(name) <= 1 THEN name ELSE SubSeq(name, 1, LastDot(name) - 1)

\* PathBuf::set_extension / Path::with_extension: the extension replaces
\* what follows the file stem
WithExtension(p, ext) == <<p[1], FileStem(p[2]) \o DOT \o ext>>

\* PathBuf::set_file_name
SetFileName(p, name) == <<p[1], name>>

\* Path::join with a relative one-component name
Join(dir, name) == <<dir, name>>

\* Path::join with any name, and the file the operating system then opens.
\* The directories of the model lie side by side in the root: an absolute
\* name "/d/n" replaces dir and names n in d, "../d/n" goes through the
\* parent into d, "s/n" names n in the subdirectory s of dir.
JoinName(dir, name) ==
  LET slashes == {i \in 1..Len(name) : name[i] = 47}
      last == IF slashes = {} THEN 0 ELSE CHOOSE i \in slashes : \A j \in slashes : j <= i
      front == SubSeq(name, 1, last - 1)
      leaf == SubSeq(name, last + 1, Len(name))
  IN IF last = 0 THEN <<dir, name>>
     ELSE IF name[1] = 47 THEN <<SubSeq(front, 2, Len(front)), leaf>>
     ELSE IF Len(front) > 3 /\ SubSeq(front, 1, 3) = <<46, 46, 47>>
       THEN <<SubSeq(front, 4, Len(front)), leaf>>
     ELSE <<dir \o <<47>> \o front, leaf>>

\* " - new"
NEW_SUFFIX == <<32, 45, 32, 110, 101, 119>>

\* encrypt_file: the path of the container
DefOutput(output_dir, file_name) == WithExtension(Join(output_dir, file_name), ENCRYPTION_EXT)

\* a container path that keeps the input's extension
ContainerPathAppended(input_path, output_dir) ==
  Join(output_dir, input_path[2] \o DOT \o ENCRYPTION_EXT)

ContainerPath(input_path, output_dir) ==
  LET def_output == DefOutput(output_dir, input_path[2])
  IN IF input_path = def_output
       THEN WithExtension(SetFileName(def_output, FileStem(input_path[2]) \o NEW_SUFFIX),
                          ENCRYPTION_EXT)
       ELSE def_output

\* ------------------------------------------------------------ file system
\* fs maps each existing path to [kind, data]: a regular file with its
\* bytes, a directory with its entries (a sequence of [name, data]), or a
\* special file (neither).  A path outside DOMAIN fs does not exist.
RegularFile(data) == [kind |-> "file", data |-> data]

Directory(entries) == [kind |-> "dir", data |-> entries]

\* what exists and is neither: a FIFO, a socket, a device
SpecialFile == [kind |-> "special", data |-> <<>>]

\* A path is <<directory, file name>>.  Two spellings can name one
\* directory (a symbolic link, a `..` component): "L" is a link to "A".
\* PathBuf's == compares spellings; the file system resolves them.
LINK_DIR == <<76>>

Resolved(dir) == IF dir = LINK_DIR THEN <<65>> ELSE dir

Real(p) == <<Resolved(p[1]), p[2]>>

Exists(f, p) == Real(p) \in DOMAIN f

\* what is at path p
At(f, p) == f[Real(p)]

\* File::read at offset off with a buffer of n bytes, on a regular file
FileRead(f, p, off, n) ==
  IF ~Exists(f, p) \/ off >= Len(At(f, p).data) THEN <<>>
  ELSE SubSeq(At(f, p).data, off + 1, Min(off + n, Len(At(f, p).data)))

\* File::create fails on a directory or a special file
Creatable(f, p) == Exists(f, p) => At(f, p).kind = "file"

\* File::create: the file is created, or truncated when it exists
FileCreated(f, p) == (Real(p) :> RegularFile(<<>>)) @@ f

\* write_all(bytes) through a handle at offset off (a hole reads as zeros)
FileWritten(f, p, off, bytes) ==
  LET old == At(f, p).data
      padded == IF off > Len(old) THEN old \o Plain(Zeros(off - Len(old))) ELSE old
      new == Take(padded, off) \o bytes \o Drop(padded, off + Len(bytes))
  IN (Real(p) :> RegularFile(new)) @@ f

\* fs_extra::dir::get_size: a file's length, or the sum over a directory
RECURSIVE SumLens(_)
SumLens(entries) ==
  IF entries = <<>> THEN 0 ELSE Len(entries[1].data) + SumLens(Tail(entries))

GetSize(f, p) == IF At(f, p).kind = "dir" THEN SumLens(At(f, p).data) ELSE Len(At(f, p).data)

\* ------------------------------------------------------------ BufReader
\* std::io::BufReader over the input file: b = [off, buf], the file offset
\* and the bytes read ahead but not yet consumed.
BufReaderNew == [off |-> 0, buf |-> <<>>]

\* fill_buf: one read of DEFAULT_BUF_SIZE bytes when the buffer is empty
BrFill(f, p, b) ==
  IF b.buf # <<>> THEN b
  ELSE LET d == FileRead(f, p, b.off, DEFAULT_BUF_SIZE)
       IN [off |-> b.off + Len(d), buf |-> d]

\* the index of the first newline among readable bytes, 0 when there is none
FirstNewline(cells) ==
  LET nl == {i \in 1..Len(cells) : cells[i].v = 10 /\ cells[i].m = {}}
  IN IF nl = {} THEN 0 ELSE CHOOSE i \in nl : \A j \in nl : i <= j

\* BufRead::read_line: up to and including the first newline, or to the end
RECURSIVE BrReadLine(_, _, _, _)
BrReadLine(f, p, b, acc) ==
  LET b1 == BrFill(f, p, b)
      i == FirstNewline(b1.buf)
  IN IF b1.buf = <<>> THEN [b |-> b1, data |-> acc]
     ELSE IF i > 0 THEN [b |-> [b1 EXCEPT !.buf = Drop(b1.buf, i)], data |-> acc \o Take(b1.buf, i)]
     ELSE BrReadLine(f, p, [b1 EXCEPT !.buf = <<>>], acc \o b1.buf)

\* BufReader::read(buf) with buf.len() = n: straight from the file when the
\* buffer is empty and n is at least its capacity, else from the buffer
BrRead(f, p, b, n) ==
  IF b.buf = <<>> /\ n >= DEFAULT_BUF_SIZE
    THEN LET d == FileRead(f, p, b.off, n)
         IN [b |-> [off |-> b.off + Len(d), buf |-> <<>>], data |-> d]
    ELSE LET b1 == BrFill(f, p, b)
         IN [b |-> [b1 EXCEPT !.buf = Drop(b1.buf, n)], data |-> Take(b1.buf, n)]

\* Read::read_exact(n): reads until n bytes are there; fewer means the end
\* was reached first (an UnexpectedEof error)
RECURSIVE BrReadExact(_, _, _, _, _)
BrReadExact(f, p, b, n, acc) ==
  IF n = 0 THEN [b |-> b, data |-> acc]
  ELSE LET r == BrRead(f, p, b, n)
       IN IF r.data = <<>> THEN [b |-> r.b, data |-> acc]
          ELSE BrReadExact(f, p, r.b, n - Len(r.data), acc \o r.data)

\* ------------------------------------------------------------ archive
\* The tar stream of a directory `top` with entries [name, data]: one
\* record for the directory, one per file named top/name, and the end
\* marker.  A record is a type byte (2 directory, 1 file, 0 end), the name
\* length and the name, and for a file the data length and the data.
RECURSIVE TarFiles(_, _)
TarFiles(top, entries) ==
  IF entries = <<>> THEN <<>>
  ELSE LET full == top \o SLASH \o entries[1].name
       IN Plain(<<1, Len(full)>> \o full \o <<Len(entries[1].data)>>) \o entries[1].data
          \o TarFiles(top, Tail(entries))

\* tar::Builder::append_dir_all(top, dir) and finish()
TarPack(top, entries) ==
  Plain(<<2, Len(top)>> \o top) \o TarFiles(top, entries) \o Plain(<<0, 0>>)

\* tar::Archive::entries on the bytes read so far: "ok" with the records
\* up to the end marker, "end" when the bytes end where a record would
\* start (an archive may end there without its marker), "more" when they
\* end inside a record, "err" when they are no archive (unreadable bytes,
\* an unknown record type)
RECURSIVE TarParse(_, _)
TarParse(s, acc) ==
  IF Len(s) = 0 THEN [kind |-> "end", recs |-> acc]
  ELSE IF Len(s) < 2 THEN [kind |-> "more", recs |-> acc]
  ELSE IF ~IsPlain(Take(s, 2)) \/ s[1].v \notin {0, 1, 2} THEN [kind |-> "err", recs |-> acc]
  ELSE IF s[1].v = 0 THEN [kind |-> "ok", recs |-> acc]
  ELSE LET nl == s[2].v
           name == SubSeq(s, 3, 2 + nl)
       IN IF Len(s) < 2 + nl THEN [kind |-> "more", recs |-> acc]
          ELSE IF ~IsPlain(name) THEN [kind |-> "err", recs |-> acc]
          ELSE IF s[1].v = 2
            THEN TarParse(Drop(s, 2 + nl),
                          Append(acc, [type |-> 2, name |-> Vals(name), data |-> <<>>]))
          ELSE IF Len(s) < 3 + nl THEN [kind |-> "more", recs |-> acc]
          ELSE IF s[3 + nl].m # {} THEN [kind |-> "err", recs |-> acc]
          ELSE IF Len(s) < 3 + nl + s[3 + nl].v THEN [kind |-> "more", recs |-> acc]
          ELSE LET dl == s[3 + nl].v
               IN TarParse(Drop(s, 3 + nl + dl),
                           Append(acc, [type |-> 1, name |-> Vals(name),
                                        data |-> SubSeq(s, 4 + nl, 3 + nl + dl)]))

\* tar::Archive::unpack, once the records are there: the directory
\* <<top, entries>> they describe, each file named top/name
TarTree(recs) ==
  IF recs = <<>> \/ recs[1].type # 2 THEN [kind |-> "err", top |-> <<>>, entries |-> <<>>]
  ELSE LET top == recs[1].name
           pre == Len(top) + 1
           files == Tail(recs)
       IN IF \E i \in 1..Len(files) :
               \/ files[i].type # 1
               \/ Take(files[i].name, pre) # top \o SLASH
            THEN [kind |-> "err", top |-> top, entries |-> <<>>]
            ELSE [kind |-> "ok", top |-> top,
                  entries |-> [i \in 1..Len(files) |->
                                 [name |-> Drop(files[i].name, pre), data |-> files[i].data]]]

\* ------------------------------------------------------------ state
VARIABLES
  mode,      \* which development runs: "adapter", "header", "files", "bench", "pair", "ui"
  ew,        \* the EncryptingWriter
  dr,        \* the DecryptingReader
  sent,      \* the progress samples sent so far, in order
  plain,     \* adapters: the payload the caller writes to the sink
  fed,       \* adapters: how many payload bytes the caller has written
  wire,      \* adapters: the bytes the sink handed to its inner writer
  down,      \* adapters: the length of each write_all the inner writer took
  wireOff,   \* adapters: how many of them the inner reader has given out
  served,    \* adapters: the bytes the source has served to its caller
  aphase,    \* adapters: "write", "flushed", "flushed2", "read", "eof" or a failure
  hist,      \* adapters: what the run has seen: "split", "short", "failed"
  fs,        \* files: the file system
  op,        \* files: the running encrypt_file / decrypt_file call
  scn,       \* files: the input as it was, and what has been done to it
  hd,        \* header: a FileHeader on its way through new, to_vec and from_vec
  bn,        \* bench: the benchmark call and its scratch directory
  pr,        \* pair: two encrypt_file calls running side by side
  ui         \* ui: the front end, its channels and its workers

sharedVars == <<ew, dr, sent>>

adapterVars == <<plain, fed, wire, down, wireOff, served, aphase, hist>>

fileVars == <<fs, op, scn>>

vars == <<mode, ew, dr, sent, plain, fed, wire, down, wireOff, served, aphase, hist, fs, op, scn, hd,
          bn, pr, ui>>

NoPath == <<<<>>, <<>>>>

NoCipher == CipherNew(0, 0, 0)

\* a call that has not started: ShinCrypt::new and the locals of
\* encrypt_file / decrypt_file
OpNew(fn, input_path, output_dir, password, progress) ==
  [fn |-> fn, pc |-> "start", result |-> "none", msg |-> "",
   input_path |-> input_path, output_dir |-> output_dir,
   password |-> password, progress |-> progress,
   packed |-> FALSE, file_h_vec |-> <<>>, file_size |-> 0,
   salt |-> 0, nonce |-> 0, cipher |-> NoCipher,
   file_path |-> NoPath, out_file |-> FALSE, outOff |-> 0, inOff |-> 0, src |-> <<>>,
   br |-> BufReaderNew, header |-> <<>>, decoded |-> <<>>, name |-> <<>>,
   iofail |-> FALSE]

OpIdle == OpNew("none", NoPath, <<>>, 0, "none")

ScnIdle == [input |-> NoPath, obj |-> RegularFile(<<>>), present |-> FALSE,
            container |-> NoPath, salt |-> 0, nonce |-> 0, tamper |-> "none",
            before |-> <<>>, removed |-> FALSE]

IdleFiles ==
  /\ fs = <<>>
  /\ op = OpIdle
  /\ scn = ScnIdle

\* no header record under way
NoHeader == [kind |-> "none"]

HdIdle == [phase |-> "idle", packed |-> FALSE, file |-> FALSE, name |-> <<>>, path |-> <<>>,
           built |-> NoHeader, vec |-> NoHeader, given |-> <<>>, back |-> NoHeader]

\* no front end
UiIdle == [pc |-> "idle"]

\* no benchmark call
BenchIdle ==
  [pc |-> "idle", dir |-> FALSE, files |-> {}, enc |-> "none", dec |-> "none",
   encrypt_time |-> 0, decrypt_time |-> 0, result |-> "none"]

IdleAdapter ==
  /\ plain = <<>>
  /\ fed = 0
  /\ wire = <<>>
  /\ down = <<>>
  /\ wireOff = 0
  /\ served = <<>>
  /\ aphase = "idle"
  /\ hist = {}

\* ------------------------------------------------------------ adapters alone
\* The sink and the source back to back on one stream: a caller writes a
\* payload in pieces of any size and flushes; a second caller then reads
\* it back with buffers of any size while the inner reader returns short
\* reads of any size.
MaxChunks == 2

\* payloads: byte i carries the value i, so a lost, repeated or reordered
\* byte shows
Payload(n) == Plain([i \in 1..n |-> i % 251])

AdapterLens == {0, 1, CHUNK - 1, CHUNK, CHUNK + 1, MaxChunks * CHUNK + CHUNK \div 2}

\* the caller buffer sizes tried: a byte at a time, a few bytes, around a chunk
CallerBufSizes == {1, 3, CHUNK - 1, CHUNK, CHUNK + 1}

\* what an inner read may return when up to m bytes could be had: all of
\* them, or a short read of 1, 2, about half, or all but one
ShortReadSizes(m) == {n \in {1, 2, m \div 2, m - 1, m} : 1 <= n /\ n <= m}

AdapterCipher == CipherNew(1, 1, 1)

\* The sink is used without a progress sender, with one, and with one and
\* the payload's length as the total (set_progress_sender,
\* set_total_input_size).
InitAdapter ==
  /\ mode = "adapter"
  /\ plain \in {Payload(n) : n \in AdapterLens}
  /\ \E sender \in {"none", "live"}, known \in BOOLEAN :
       /\ sender = "none" => ~known
       /\ ew = [EncryptingWriterNew(AdapterCipher) EXCEPT
                  !.sender = sender,
                  !.total_input_size = IF known THEN Len(plain) ELSE NoTotal]
  /\ dr = DecryptingReaderNew(AdapterCipher)
  /\ sent = <<>>
  /\ fed = 0
  /\ wire = <<>>
  /\ down = <<>>
  /\ wireOff = 0
  /\ served = <<>>
  /\ aphase = "write"
  /\ hist = {}
  /\ hd = HdIdle
  /\ bn = BenchIdle
  /\ pr = <<>>
  /\ ui = UiIdle
  /\ IdleFiles

\* The caller hands the next k payload bytes to EncryptingWriter::write.
\* The first inner write_all of the call may fail, once in a run; write
\* then returns the error with the k bytes in its buffer, and the caller
\* goes on with the sink.
AWrite ==
  /\ mode = "adapter" /\ aphase = "write" /\ fed < Len(plain)
  /\ \E k \in 1..(Len(plain) - fed), failAt \in {0, 1} :
       LET st == WriterWrite(ew, SubSeq(plain, fed + 1, fed + k), failAt)
       IN /\ failAt <= st.writes
          /\ failAt = 1 => "failed" \notin hist
          /\ ew' = st.w
          /\ wire' = wire \o st.out
          /\ down' = down \o st.lens
          /\ sent' = sent \o st.sent
          /\ fed' = fed + k
          /\ hist' = hist \cup (IF k < Len(plain) - fed THEN {"split"} ELSE {})
                           \cup (IF st.res = "err" THEN {"failed"} ELSE {})
  /\ UNCHANGED <<mode, ui, hd, bn, pr, dr, plain, wireOff, served, aphase, fileVars>>

\* the caller's flush after the last write, and a second flush right after it
AFlush ==
  /\ mode = "adapter" /\ aphase \in {"write", "flushed"} /\ fed = Len(plain)
  /\ LET st == WriterFlush(ew, FALSE, FALSE)
     IN /\ ew' = st.w
        /\ wire' = wire \o st.out
        /\ down' = down \o st.lens
        /\ sent' = sent \o st.sent
  /\ aphase' = IF aphase = "write" THEN "flushed" ELSE "flushed2"
  /\ UNCHANGED <<mode, ui, hd, bn, pr, dr, plain, fed, wireOff, served, hist, fileVars>>

\* one DecryptingReader::read with a caller buffer of b bytes; when it
\* refills, the inner reader returns n bytes, at least 1 while any remain.
\* The caller may read on after the read that returned 0.  What a run
\* with a failed inner write left is not read back.
ARead ==
  /\ mode = "adapter" /\ aphase \in {"flushed", "flushed2", "read", "eof"}
  /\ "failed" \notin hist
  /\ \E b \in CallerBufSizes :
       LET rem == Len(wire) - wireOff
       IN \E n \in (IF ~NeedsRefill(dr) \/ rem = 0 THEN {0}
                                                   ELSE ShortReadSizes(Min(CHUNK, rem))) :
            LET st == ReaderRead(dr, b, Got(SubSeq(wire, wireOff + 1, wireOff + n)))
            IN /\ dr' = st.r
               /\ sent' = sent \o st.sent
               /\ wireOff' = wireOff + n
               /\ served' = served \o st.data
               /\ aphase' = IF st.res # "ok" THEN st.res
                             ELSE IF st.data = <<>> THEN "eof" ELSE "read"
               /\ hist' = IF NeedsRefill(dr) /\ n < Min(CHUNK, rem)
                             THEN hist \cup {"short"} ELSE hist
  /\ UNCHANGED <<mode, ui, hd, bn, pr, ew, plain, fed, wire, down, fileVars>>

NextAdapter == AWrite \/ AFlush \/ ARead

SpecAdapter == InitAdapter /\ [][NextAdapter]_vars

AdapterServedPrefix == aphase \in {"read", "eof"} => served = Take(plain, Len(served))

\* ------------------------------------------------------------ header record alone
\* FileHeader::new, to_vec and from_vec on names and paths of every length
\* up to MaxNameLen, which is past what the record holds.
MaxNameLen == 22

HeaderName(n) == [i \in 1..n |-> 97 + (i % 5)]

\* a path of n bytes, valid UTF-8 or not
HeaderPath(n, utf8) == [i \in 1..n |-> IF i = 1 /\ ~utf8 THEN 255 ELSE 65 + (i % 5)]

InitHeader ==
  /\ mode = "header"
  /\ \E packed \in BOOLEAN, file \in BOOLEAN, n \in 0..MaxNameLen, m \in 0..MaxNameLen,
        utf8 \in BOOLEAN :
       hd = [HdIdle EXCEPT !.phase = "new", !.packed = packed, !.file = file,
                           !.name = HeaderName(n), !.path = HeaderPath(m, utf8)]
  /\ ew = EncryptingWriterNew(NoCipher)
  /\ dr = DecryptingReaderNew(NoCipher)
  /\ sent = <<>>
  /\ bn = BenchIdle
  /\ pr = <<>>
  /\ ui = UiIdle
  /\ IdleAdapter
  /\ IdleFiles

\* FileHeader::new
HNew ==
  /\ mode = "header" /\ hd.phase = "new"
  /\ LET built == FileHeaderNew(hd.packed, hd.file, ENCRYPTION_VERSION, XChaCha20,
                                hd.name, hd.path)
     IN hd' = [hd EXCEPT !.built = built,
                         !.phase = IF built.kind = "ok" THEN "built" ELSE "panic"]
  /\ UNCHANGED <<mode, ui, sharedVars, adapterVars, fileVars, bn, pr>>

\* FileHeader::to_vec
HToVec ==
  /\ mode = "header" /\ hd.phase = "built"
  /\ LET vec == ToVec(hd.built.h)
     IN hd' = [hd EXCEPT !.vec = vec,
                         !.phase = IF vec.kind = "ok" THEN "vec" ELSE "panic"]
  /\ UNCHANGED <<mode, ui, sharedVars, adapterVars, fileVars, bn, pr>>

\* the six 16-bit fields of the record
FixedFieldBytes == 6 * 2

\* What from_vec is given: the serialised record, the record with the
\* first byte after the name length no longer UTF-8, either with every
\* method tag tried (none, the one defined, the next, and one whose low
\* byte is that of the defined one), and inputs of other lengths (nothing,
\* the record cut short by a byte or more, the record with a byte after
\* it).
FromVecInputs(rec) ==
  LET MethodTags == {0, XChaCha20, XChaCha20 + 1, 256 + XChaCha20}
      WithTag(r, t) == SubSeq(r, 1, 6) \o ToLeBytes(t) \o SubSeq(r, 9, Len(r))
      bases == {rec, [rec EXCEPT ![FixedFieldBytes - 1] = 255]}
  IN {WithTag(b, t) : b \in bases, t \in MethodTags}
       \cup {Take(rec, n) : n \in {0, FixedFieldBytes, FILE_HEADER_SIZE - 1}}
       \cup {rec \o Zeros(1)}

\* FileHeader::from_vec on the serialised record or a variant of it
HFromVec ==
  /\ mode = "header" /\ hd.phase = "vec"
  /\ \E given \in FromVecInputs(hd.vec.bytes) :
       hd' = [hd EXCEPT !.given = given, !.back = FromVec(given), !.phase = "back"]
  /\ UNCHANGED <<mode, ui, sharedVars, adapterVars, fileVars, bn, pr>>

NextHeader == HNew \/ HToVec \/ HFromVec

SpecHeader == InitHeader /\ [][NextHeader]_vars

\* the record does not hold the name and the path
Oversize == FixedFieldBytes + Len(hd.name) + Len(hd.path) > FILE_HEADER_SIZE

\* C7: building and serialising a header that does not fit in
\* FILE_HEADER_SIZE bytes ends in an error result (RecordTooLarge), not in
\* a panic and not in a truncated record.
OversizeRejected ==
  (mode = "header" /\ hd.phase \notin {"new", "built"} /\ Oversize) => hd.phase = "err"

\* ... what happens is a panic, in new for a path that is not UTF-8 and
\* in to_vec otherwise
OversizePanics ==
  (mode = "header" /\ hd.phase \notin {"new", "built"} /\ Oversize) => hd.phase = "panic"

\* ------------------------------------------------------------ files: inputs
\* the directories "A" and "B"
Dirs == {<<65>>, <<66>>}

\* "r.p", "r.snc": tried with every payload length
MainNames == {<<114, 46, 112>>, <<114, 46, 115, 110, 99>>}

\* "r", ".h", "a.b.snc": tried with a one-byte payload
OtherNames == {<<114>>, <<46, 104>>, <<97, 46, 98, 46, 115, 110, 99>>}

FileLens == {0, 1, CHUNK + 1, 2 * CHUNK + 1}

\* directory contents: empty, one file "f", and files "f" and "g"
Trees == {<<>>,
          <<[name |-> <<102>>, data |-> Payload(2)]>>,
          <<[name |-> <<102>>, data |-> Payload(1)], [name |-> <<103>>, data |-> Payload(3)]>>}

Inputs ==
  {[name |-> n, obj |-> RegularFile(Payload(l))] : n \in MainNames, l \in FileLens}
    \cup {[name |-> n, obj |-> RegularFile(Payload(1))] : n \in OtherNames}
    \cup {[name |-> n, obj |-> Directory(t)] : n \in MainNames, t \in Trees}
    \cup {[name |-> <<114>>, obj |-> SpecialFile]}

Salts == {1, 2}

Nonces == {1, 2}

\* the text of a generated salt (SaltString::as_str), scaled to two letters
SaltText(salt) == <<96 + salt, 96 + salt>>

\* the salt a text stands for: a generated one, or 0 for any other text
SaltId(text) ==
  IF \E x \in Salts : SaltText(x) = text
    THEN CHOOSE x \in Salts : SaltText(x) = text
    ELSE 0

\* a nonce that is the same for every draw
NonceBytesFixed(nonce) == [i \in 1..NONCE_SIZE |-> 1]

NonceBytes(nonce) == [i \in 1..NONCE_SIZE |-> nonce]

\* the nonce a byte string stands for: a generated one, or 0 for any other
NonceId(bytes) ==
  IF \E x \in Nonces : NonceBytes(x) = bytes
    THEN CHOOSE x \in Nonces : NonceBytes(x) = bytes
    ELSE 0

Passwords == {1, 2}

\* progress: None, a sender whose receiver lives, one whose receiver is gone
Senders == {"none", "live", "dropped"}

\* ------------------------------------------------------------ encrypt_file
Finished(o, result, msg) == [o EXCEPT !.pc = "done", !.result = result, !.msg = msg]

\* the call ends on an I/O operation that failed
FinishedIo(o, result, msg) == [Finished(o, result, msg) EXCEPT !.iofail = TRUE]

InitFiles ==
  /\ mode = "files"
  /\ \E d \in Dirs \cup {LINK_DIR}, in \in Inputs, present \in BOOLEAN, out \in Dirs, progress \in Senders :
       /\ fs = IF present THEN Real(<<d, in.name>>) :> in.obj ELSE <<>>
       /\ scn = [ScnIdle EXCEPT !.input = <<d, in.name>>, !.obj = in.obj, !.present = present]
       /\ op = OpNew("encrypt", <<d, in.name>>, out, 1, progress)
  /\ ew = EncryptingWriterNew(NoCipher)
  /\ dr = DecryptingReaderNew(NoCipher)
  /\ sent = <<>>
  /\ hd = HdIdle
  /\ bn = BenchIdle
  /\ pr = <<>>
  /\ ui = UiIdle
  /\ IdleAdapter

Enc(pc) == mode = "files" /\ op.fn = "encrypt" /\ op.pc = pc

\* a start that does not look whether the input exists
EExistsUnchecked ==
  /\ Enc("start")
  /\ op' = [op EXCEPT !.pc = "classify"]
  /\ UNCHANGED <<mode, ui, hd, bn, pr, sharedVars, adapterVars, fs, scn>>

\* lines 374-377: the input path must exist
EExists ==
  /\ Enc("start")
  /\ op' = IF ~Exists(fs, op.input_path)
             THEN Finished(op, "err", "Input path does not exist")
             ELSE [op EXCEPT !.pc = "classify"]
  /\ UNCHANGED <<mode, ui, hd, bn, pr, sharedVars, adapterVars, fs, scn>>

\* another process removes the input after the existence check
ERemoved ==
  /\ Enc("classify") /\ ~scn.removed
  /\ DOMAIN fs = {Real(op.input_path)}
  /\ fs' = <<>>
  /\ scn' = [scn EXCEPT !.removed = TRUE]
  /\ UNCHANGED <<mode, ui, hd, bn, pr, sharedVars, adapterVars, op>>

\* FileDir::what
What(f, p) ==
  IF ~Exists(f, p) THEN "err"
  ELSE IF At(f, p).kind = "file" THEN "File"
  ELSE IF At(f, p).kind = "dir" THEN "Directory"
  ELSE "err"

\* lines 379-390: classification (unwrapped), the file name, the header
\* and its serialisation, the input size
EClassify ==
  /\ Enc("classify")
  /\ LET what == What(fs, op.input_path)
         file == what = "Directory"
         packed == file
         file_name == op.input_path[2]
         file_h == FileHeaderNew(packed, file, ENCRYPTION_VERSION, XChaCha20,
                                 file_name, PathStr(op.input_path))
         file_h_vec == ToVec(file_h.h)
     IN op' = IF what = "err" THEN Finished(op, "panic", "unwrap on FileDir::what")
              ELSE IF ~ValidUtf8(file_name) THEN Finished(op, "err", "File name is not valid UTF-8")
              ELSE IF file_h.kind # "ok" THEN Finished(op, "panic", "unwrap in FileHeader::new")
              ELSE IF file_h_vec.kind # "ok" THEN Finished(op, "panic", "slice index in to_vec")
              ELSE [op EXCEPT !.pc = "params", !.packed = packed,
                              !.file_h_vec = file_h_vec.bytes,
                              !.file_size = GetSize(fs, op.input_path)]
  /\ UNCHANGED <<mode, ui, hd, bn, pr, sharedVars, adapterVars, fs, scn>>

\* lines 393-408: a fresh salt, the key, a fresh nonce, the cipher, and the
\* path of the container
EParams ==
  /\ Enc("params")
  /\ \E salt \in Salts, nonce \in Nonces :
       op' = [op EXCEPT !.pc = "create", !.salt = salt, !.nonce = nonce,
                        !.cipher = CipherNew(op.password, SaltId(SaltText(salt)),
                                             NonceId(NonceBytes(nonce))),
                        !.file_path = ContainerPath(op.input_path, op.output_dir)]
  /\ UNCHANGED <<mode, ui, hd, bn, pr, sharedVars, adapterVars, fs, scn>>

\* lines 410-413: File::create of the container
ECreate ==
  /\ Enc("create")
  /\ \E fail \in (IF Creatable(fs, op.file_path) THEN BOOLEAN ELSE {TRUE}) :
       IF fail
         THEN /\ op' = FinishedIo(op, "err", "Failed to create output file")
              /\ fs' = fs
         ELSE /\ op' = [op EXCEPT !.pc = "salt", !.out_file = TRUE, !.outOff = 0]
              /\ fs' = FileCreated(fs, op.file_path)
  /\ UNCHANGED <<mode, ui, hd, bn, pr, sharedVars, adapterVars, scn>>

\* one write_all on the container's handle: it fails, or appends the bytes
OutWrite(bytes, nextpc, errmsg) ==
  \E fail \in BOOLEAN :
    IF fail
      THEN /\ op' = FinishedIo(op, "err", errmsg)
           /\ fs' = fs
      ELSE /\ op' = [op EXCEPT !.pc = nextpc, !.outOff = op.outOff + Len(bytes)]
           /\ fs' = FileWritten(fs, op.file_path, op.outOff, bytes)

\* a salt written without its newline
EWriteSaltNoNewline ==
  /\ Enc("salt")
  /\ OutWrite(Plain(SaltText(op.salt)), "nonce", "Failed to write salt")
  /\ UNCHANGED <<mode, ui, hd, bn, pr, sharedVars, adapterVars, scn>>

\* lines 416-419: the salt line
EWriteSalt ==
  /\ Enc("salt")
  /\ OutWrite(Plain(SaltText(op.salt) \o <<10>>), "nonce", "Failed to write salt")
  /\ UNCHANGED <<mode, ui, hd, bn, pr, sharedVars, adapterVars, scn>>

\* lines 420-423: the nonce
EWriteNonce ==
  /\ Enc("nonce")
  /\ OutWrite(Plain(NonceBytes(op.nonce)), "header", "Failed to write nonce")
  /\ UNCHANGED <<mode, ui, hd, bn, pr, sharedVars, adapterVars, scn>>

\* lines 425-440: the header is transformed by the cipher and written; the
\* cipher then moves into the EncryptingWriter around the container
HeaderKeystream(c, file_h_vec) == KeystreamApplied(c, Plain(file_h_vec))

EWriteHeader ==
  /\ Enc("header")
  /\ \E fail \in BOOLEAN :
       IF fail
         THEN /\ op' = FinishedIo(op, "err", "Failed to write file header")
              /\ UNCHANGED <<fs, ew>>
         ELSE LET enc == HeaderKeystream(op.cipher, op.file_h_vec)
                  w == EncryptingWriterNew(CipherAdvanced(op.cipher, Len(op.file_h_vec)))
              IN /\ fs' = FileWritten(fs, op.file_path, op.outOff, enc)
                 /\ ew' = [w EXCEPT !.sender = op.progress, !.total_input_size = op.file_size]
                 /\ op' = [op EXCEPT !.pc = "open", !.outOff = op.outOff + Len(enc),
                                     !.cipher = NoCipher]
  /\ UNCHANGED <<mode, ui, hd, bn, pr, dr, sent, adapterVars, scn>>

\* lines 442-447 and 459-462: the payload's source: the archive of the
\* directory, or the input file opened for reading
EOpen ==
  /\ Enc("open")
  /\ op' = IF op.packed
             THEN [op EXCEPT !.pc = "copy", !.inOff = 0,
                             !.src = IF Exists(fs, op.input_path) /\ At(fs, op.input_path).kind = "dir"
                                       THEN TarPack(op.input_path[2], At(fs, op.input_path).data)
                                       ELSE <<>>]
             ELSE IF ~Exists(fs, op.input_path)
               THEN Finished(op, "err", "Failed to open input file")
               ELSE [op EXCEPT !.pc = "copy", !.inOff = 0]
  /\ UNCHANGED <<mode, ui, hd, bn, pr, sharedVars, adapterVars, fs, scn>>

\* a container that is its own input grows for ever: the model stops there
MaxOutLen == 160

\* a payload in which a single file is framed as an archive entry too
PayloadPieceFramed ==
  LET data == At(fs, op.input_path).data
      stream == IF op.packed THEN op.src
                ELSE Plain(<<1, Len(op.input_path[2])>> \o op.input_path[2] \o <<Len(data)>>)
                       \o data
  IN SubSeq(stream, op.inOff + 1, Min(op.inOff + DEFAULT_BUF_SIZE, Len(stream)))

\* the next piece of the payload: io::copy reads the input file with a
\* buffer of DEFAULT_BUF_SIZE bytes; the archive builder writes its stream
PayloadPiece ==
  IF op.packed THEN SubSeq(op.src, op.inOff + 1, Min(op.inOff + DEFAULT_BUF_SIZE, Len(op.src)))
  ELSE FileRead(fs, op.input_path, op.inOff, DEFAULT_BUF_SIZE)

\* lines 448-468: one piece through EncryptingWriter::write (write_all);
\* an inner write may fail
ECopy ==
  /\ Enc("copy")
  /\ op.outOff < MaxOutLen
  /\ LET piece == PayloadPiece
     IN IF piece = <<>>
          THEN /\ op' = [op EXCEPT !.pc = "flush"]
               /\ UNCHANGED <<fs, ew, sent>>
          ELSE \E failAt \in {0, 1} :
                 LET st == WriterWrite(ew, piece, failAt)
                 IN /\ failAt <= st.writes
                    /\ ew' = st.w
                    /\ sent' = sent \o st.sent
                    /\ fs' = FileWritten(fs, op.file_path, op.outOff, st.out)
                    /\ op' = IF st.res = "ok"
                               THEN [op EXCEPT !.inOff = op.inOff + Len(piece),
                                               !.outOff = op.outOff + Len(st.out)]
                             ELSE IF st.res = "err"
                               THEN FinishedIo(op, "err", IF op.packed
                                                          THEN "Failed to add files to archive"
                                                          ELSE "Failed to write encrypted file")
                             ELSE Finished(op, "panic", "unwrap on progress send")
  /\ UNCHANGED <<mode, ui, hd, bn, pr, dr, adapterVars, scn>>

\* lines 471-476: the final flush
EFlush ==
  /\ Enc("flush")
  /\ \E failWrite \in BOOLEAN, failFlush \in BOOLEAN :
       LET st == WriterFlush(ew, failWrite, failFlush)
       IN /\ (failWrite => st.writes = 1)
          /\ ~(failWrite /\ failFlush)
          /\ ew' = st.w
          /\ sent' = sent \o st.sent
          /\ fs' = FileWritten(fs, op.file_path, op.outOff, st.out)
          /\ op' = IF st.res = "ok"
                     THEN [Finished(op, "ok", "") EXCEPT !.outOff = op.outOff + Len(st.out)]
                   ELSE IF st.res = "err" THEN FinishedIo(op, "err", "Failed to flush writer")
                   ELSE IF failWrite THEN FinishedIo(op, "panic", "unwrap on write_all in flush")
                   ELSE Finished(op, "panic", "unwrap on progress send")
          /\ scn' = IF st.res = "ok"
                      THEN [scn EXCEPT !.container = op.file_path, !.salt = ew.cipher.salt,
                                       !.nonce = ew.cipher.nonce]
                      ELSE scn
  /\ UNCHANGED <<mode, ui, hd, bn, pr, dr, adapterVars>>

NextEncrypt ==
  \/ EExists \/ ERemoved \/ EClassify \/ EParams \/ ECreate \/ EWriteSalt \/ EWriteNonce
  \/ EWriteHeader \/ EOpen \/ ECopy \/ EFlush


\* ------------------------------------------------------------ other containers
\* Containers that encrypt_file did not write: the container is cut short,
\* its salt line is replaced, or bits of its encrypted header are flipped
\* (which flips the same bits of the decrypted header).
SaltLineLen == Len(SaltText(1)) + 1

HeaderStart == SaltLineLen + NONCE_SIZE

\* byte i of the file takes the plaintext value v, under the same keystream
Flipped(data, i, v) == [data EXCEPT ![i] = [v |-> v, m |-> data[i].m]]

Tampered(data, how) ==
  LET Renamed(name) ==
        LET h == FromVec(Vals(SubSeq(data, HeaderStart + 1, HeaderStart + FILE_HEADER_SIZE))).h
            vec == ToVec([h EXCEPT !.name = name, !.name_len = Len(name)]).bytes
        IN [i \in 1..Len(data) |->
              IF HeaderStart < i /\ i <= HeaderStart + FILE_HEADER_SIZE
                THEN [v |-> vec[i - HeaderStart], m |-> data[i].m] ELSE data[i]]
  IN
  CASE how = "empty" -> <<>>
    [] how = "salt_cut" -> Take(data, 1)
    [] how = "nonce_cut" -> Take(data, SaltLineLen + 10)
    [] how = "header_cut" -> Take(data, HeaderStart + 5)
    [] how = "salt_bad" -> Plain(<<33, 33, 10>>) \o Drop(data, SaltLineLen)
    [] how = "salt_short" -> Plain(<<97, 10>>) \o Drop(data, SaltLineLen)
    [] how = "method" -> Flipped(data, HeaderStart + 7, 2)
    [] how = "name_utf8" -> Flipped(data, HeaderStart + 11, 255)
    [] how = "path_utf8" -> Flipped(data, HeaderStart + 10 + Vals(data)[HeaderStart + 9] + 3, 255)
    [] how = "name_abs" -> Renamed(<<47, 66, 47, 103>>)
    [] how = "name_up" -> Renamed(<<46, 46, 47, 66, 47, 103>>)
    [] how = "name_sub" -> Renamed(<<115, 47, 103>>)

Tampers == {"empty", "salt_cut", "nonce_cut", "header_cut", "salt_bad", "salt_short",
            "method", "name_utf8", "path_utf8"}

\* The container is changed before it is decrypted.  Someone who has the
\* password can put any name into its header: "/B/g", "../B/g", "s/g" are
\* tried on containers of a single file of at most one byte.
Tamper ==
  /\ Enc("done") /\ op.result = "ok" /\ scn.tamper = "none"
  /\ \E how \in Tampers \cup (IF scn.obj.kind = "file" /\ Len(scn.obj.data) <= 1
                                THEN {"name_abs", "name_up", "name_sub"} ELSE {}) :
       /\ fs' = [fs EXCEPT ![Real(scn.container)] =
                                RegularFile(Tampered(At(fs, scn.container).data, how))]
       /\ scn' = [scn EXCEPT !.tamper = how]
  /\ UNCHANGED <<mode, ui, hd, bn, pr, sharedVars, adapterVars, op>>

\* ------------------------------------------------------------ decrypt_file
Dec(pc) == mode = "files" /\ op.fn = "decrypt" /\ op.pc = pc

\* a caller decrypts the container encrypt_file produced, into some
\* directory, with the same or another password
DStart ==
  /\ Enc("done") /\ op.result = "ok"
  /\ \E out \in Dirs, pw \in Passwords, progress \in Senders :
       op' = OpNew("decrypt", scn.container, out, pw, progress)
  /\ sent' = <<>>
  /\ ew' = EncryptingWriterNew(NoCipher)
  /\ scn' = [scn EXCEPT !.before = fs]
  /\ UNCHANGED <<mode, ui, hd, bn, pr, dr, adapterVars, fs>>

\* lines 481-488: open the container, wrap it in a BufReader, get its size
DOpen ==
  /\ Dec("start")
  /\ op' = IF ~Exists(fs, op.input_path)
             THEN Finished(op, "err", "Failed to open input file")
             ELSE [op EXCEPT !.pc = "salt", !.br = BufReaderNew,
                             !.file_size = Len(At(fs, op.input_path).data)]
  /\ UNCHANGED <<mode, ui, hd, bn, pr, sharedVars, adapterVars, fs, scn>>

\* str::trim on the salt line: white space off both ends
IsSpace(c) == c.m = {} /\ c.v \in {9, 10, 13, 32}

RECURSIVE TrimStart(_)
TrimStart(t) == IF t # <<>> /\ IsSpace(t[1]) THEN TrimStart(Tail(t)) ELSE t

RECURSIVE TrimEnd(_)
TrimEnd(t) == IF t # <<>> /\ IsSpace(t[Len(t)]) THEN TrimEnd(SubSeq(t, 1, Len(t) - 1)) ELSE t

Trim(t) == TrimEnd(TrimStart(t))

\* SaltString::from_b64, scaled: one or two characters (4 to 64 in the
\* library) out of the letters and digits
SaltFromB64(text) ==
  /\ Len(text) \in 1..2
  /\ \A i \in 1..Len(text) : text[i] \in (48..57) \cup (65..90) \cup (97..122)

\* get_key: Argon2 refuses a salt shorter than its minimum (8 bytes in the
\* library, two characters here), and hash_password(..).unwrap() panics
GetKeyPanics(text) == Len(text) < 2

\* lines 490-499: the salt line and its decoding
DSalt ==
  /\ Dec("salt")
  /\ LET r == BrReadLine(fs, op.input_path, op.br, <<>>)
         text == Vals(Trim(r.data))
     IN op' = IF ~IsPlain(r.data) \/ ~ValidUtf8(Vals(r.data))
                THEN Finished(op, "err", "Failed to read salt")
              ELSE IF ~SaltFromB64(text)
                THEN Finished(op, "err", "Invalid salt format")
              ELSE [op EXCEPT !.pc = "nonce", !.br = r.b, !.header = Plain(text)]
  /\ UNCHANGED <<mode, ui, hd, bn, pr, sharedVars, adapterVars, fs, scn>>

\* lines 501-513: the nonce, the key, the cipher, and the DecryptingReader
\* around the BufReader
DNonce ==
  /\ Dec("nonce")
  /\ LET r == BrReadExact(fs, op.input_path, op.br, NONCE_SIZE, <<>>)
         text == Vals(op.header)
         cipher == CipherNew(op.password, SaltId(text), NonceId(Vals(r.data)))
     IN IF Len(r.data) < NONCE_SIZE
          THEN /\ op' = Finished(op, "err", "Failed to read nonce")
               /\ dr' = dr
        ELSE IF GetKeyPanics(text)
          THEN /\ op' = Finished(op, "panic", "unwrap on hash_password")
               /\ dr' = dr
        ELSE /\ op' = [op EXCEPT !.pc = "header", !.br = r.b, !.header = <<>>,
                                 !.salt = SaltId(text), !.nonce = NonceId(Vals(r.data))]
             /\ dr' = DecryptingReaderNew(cipher)
  /\ UNCHANGED <<mode, ui, hd, bn, pr, ew, sent, adapterVars, fs, scn>>

\* One DecryptingReader::read with a buffer of buflen bytes on the
\* container: the possible outcomes [st, b, io], st what the call returns, b
\* the BufReader afterwards, io whether the inner read failed.  When the call refills, the inner read gives
\* what the BufReader has, or fails.
DrOutcomes(buflen) ==
  IF NeedsRefill(dr)
    THEN LET r == BrRead(fs, op.input_path, op.br, CHUNK)
         IN {[st |-> ReaderRead(dr, buflen, Got(r.data)), b |-> r.b, io |-> FALSE],
             [st |-> ReaderRead(dr, buflen, GotErr), b |-> op.br, io |-> TRUE]}
    ELSE {[st |-> ReaderRead(dr, buflen, Got(<<>>)), b |-> op.br, io |-> FALSE]}

\* a read call panicked: on the failed inner read, or on the progress send
ReadPanicked(o, out) ==
  IF out.io THEN FinishedIo(o, "panic", "unwrap on inner read")
            ELSE Finished(o, "panic", "unwrap on progress send")

\* lines 515-520: read_exact of the header, one read call at a time
DHeaderRead ==
  /\ Dec("header")
  /\ \E o \in DrOutcomes(FILE_HEADER_SIZE - Len(op.header)) :
       /\ dr' = o.st.r
       /\ sent' = sent \o o.st.sent
       /\ op' = IF o.st.res # "ok" THEN ReadPanicked(op, o)
                ELSE IF o.st.data = <<>> THEN Finished(op, "err", "Failed to read file header")
                ELSE [op EXCEPT !.br = o.b, !.header = op.header \o o.st.data,
                                !.pc = IF Len(op.header) + Len(o.st.data) = FILE_HEADER_SIZE
                                         THEN "parse" ELSE "header"]
  /\ UNCHANGED <<mode, ui, hd, bn, pr, ew, adapterVars, fs, scn>>

\* what a header can decode to when it was decrypted under another key and
\* its bytes are noise: nothing valid, a valid header of a single file "g",
\* a valid header of an archive; their file flags and versions are not
\* those encrypt_file writes
GarbageHeaders ==
  {[i \in 1..FILE_HEADER_SIZE |-> 255],
   ToVec([packed |-> FALSE, file |-> TRUE, version |-> 7, encryption |-> XChaCha20,
          name_len |-> 1, name |-> <<103>>, path_len |-> 0, path |-> <<>>]).bytes,
   ToVec([packed |-> TRUE, file |-> FALSE, version |-> 7, encryption |-> XChaCha20,
          name_len |-> 1, name |-> <<103>>, path_len |-> 0, path |-> <<>>]).bytes}

\* a decrypt_file that goes on with a header that did not validate
DParseTrusting ==
  /\ Dec("parse")
  /\ \E vec \in (IF IsPlain(op.header) THEN {Vals(op.header)} ELSE GarbageHeaders) :
       LET file_h == FromVec(vec)
           packed == file_h.kind = "ok" /\ file_h.h.packed
           name == IF file_h.kind = "ok" THEN file_h.h.name ELSE <<103>>
       IN /\ op' = [op EXCEPT !.pc = IF packed THEN "unpack" ELSE "create",
                              !.packed = packed, !.name = name,
                              !.header = <<>>, !.decoded = vec]
          /\ dr' = IF op.progress = "none" THEN dr
                   ELSE [dr EXCEPT !.sender = op.progress,
                                   !.total_input_size = op.file_size]
  /\ UNCHANGED <<mode, ui, hd, bn, pr, ew, sent, adapterVars, fs, scn>>

\* a decrypt_file that unpacks what the header calls a file
DParseByFileFlag ==
  /\ Dec("parse")
  /\ \E vec \in (IF IsPlain(op.header) THEN {Vals(op.header)} ELSE GarbageHeaders) :
       LET file_h == FromVec(vec)
       IN IF file_h.kind # "ok"
            THEN /\ op' = [Finished(op, "err", "Invalid file header") EXCEPT !.decoded = vec]
                 /\ dr' = dr
            ELSE /\ op' = [op EXCEPT !.pc = IF file_h.h.file THEN "unpack" ELSE "create",
                                     !.packed = file_h.h.packed, !.name = file_h.h.name,
                                     !.header = <<>>, !.decoded = vec]
                 /\ dr' = IF op.progress = "none" THEN dr
                          ELSE [dr EXCEPT !.sender = op.progress,
                                          !.total_input_size = op.file_size]
  /\ UNCHANGED <<mode, ui, hd, bn, pr, ew, sent, adapterVars, fs, scn>>

\* lines 521-530: the header is decoded; progress is attached
DParse ==
  /\ Dec("parse")
  /\ \E vec \in (IF IsPlain(op.header) THEN {Vals(op.header)} ELSE GarbageHeaders) :
       LET file_h == FromVec(vec)
       IN IF file_h.kind # "ok"
            THEN /\ op' = [Finished(op, "err", "Invalid file header") EXCEPT !.decoded = vec]
                 /\ dr' = dr
            ELSE /\ op' = [op EXCEPT !.pc = IF file_h.h.packed THEN "unpack" ELSE "create",
                                     !.packed = file_h.h.packed, !.name = file_h.h.name,
                                     !.header = <<>>, !.decoded = vec]
                 /\ dr' = IF op.progress = "none" THEN dr
                          ELSE [dr EXCEPT !.sender = op.progress,
                                          !.total_input_size = op.file_size]
  /\ UNCHANGED <<mode, ui, hd, bn, pr, ew, sent, adapterVars, fs, scn>>

\* lines 540-545: File::create of output_dir.join(header.name); it fails
\* where the directory of that path does not exist
DCreate ==
  /\ Dec("create")
  /\ LET output_path == JoinName(op.output_dir, op.name)
     IN \E fail \in (IF Creatable(fs, output_path) /\ Resolved(output_path[1]) \in Dirs
                       THEN BOOLEAN ELSE {TRUE}) :
          IF fail
            THEN /\ op' = FinishedIo(op, "err", "Failed to create output file")
                 /\ fs' = fs
            ELSE /\ op' = [op EXCEPT !.pc = "copy", !.file_path = output_path,
                                     !.out_file = TRUE, !.outOff = 0]
                 /\ fs' = FileCreated(fs, output_path)
  /\ UNCHANGED <<mode, ui, hd, bn, pr, sharedVars, adapterVars, scn>>

\* lines 547-554: io::copy, one read of DEFAULT_BUF_SIZE bytes and one
\* write_all at a time, until a read returns 0
DCopy ==
  /\ Dec("copy")
  /\ \E o \in DrOutcomes(DEFAULT_BUF_SIZE), fail \in BOOLEAN :
       /\ (fail => o.st.res = "ok" /\ o.st.data # <<>>)
       /\ dr' = o.st.r
       /\ sent' = sent \o o.st.sent
       /\ fs' = IF fail THEN fs ELSE FileWritten(fs, op.file_path, op.outOff, o.st.data)
       /\ op' = IF o.st.res # "ok" THEN ReadPanicked(op, o)
                ELSE IF fail THEN FinishedIo(op, "err", "Failed to write decrypted file")
                ELSE IF o.st.data = <<>> THEN Finished(op, "ok", "")
                ELSE [op EXCEPT !.br = o.b, !.outOff = op.outOff + Len(o.st.data)]
  /\ UNCHANGED <<mode, ui, hd, bn, pr, ew, adapterVars, scn>>

\* the directory an unpacked archive leaves at p: its entries replace the
\* entries of the same name of a directory already there
Unpacked(f, p, entries) ==
  LET names == {entries[i].name : i \in 1..Len(entries)}
      kept == IF Exists(f, p) THEN SelectSeq(At(f, p).data, LAMBDA e : e.name \notin names)
              ELSE <<>>
  IN (Real(p) :> Directory(entries \o kept)) @@ f

\* lines 532-538: tar unpack: reads until the archive's end marker or the
\* end of the stream, then the tree is there under output_dir
DUnpack ==
  /\ Dec("unpack")
  /\ \E o \in DrOutcomes(DEFAULT_BUF_SIZE) :
       LET acc == op.src \o o.st.data
           parsed == TarParse(acc, <<>>)
           tree == TarTree(parsed.recs)
           target == Join(op.output_dir, tree.top)
           ended == \/ parsed.kind = "ok"
                    \/ parsed.kind = "end" /\ o.st.data = <<>>
           some == ended /\ parsed.recs # <<>>
           bad == \/ parsed.kind = "err"
                  \/ parsed.kind = "more" /\ o.st.data = <<>>
                  \/ some /\ tree.kind # "ok"
                  \/ some /\ Exists(fs, target) /\ At(fs, target).kind # "dir"
       IN /\ dr' = o.st.r
          /\ sent' = sent \o o.st.sent
          /\ fs' = IF o.st.res = "ok" /\ ~bad /\ some
                     THEN Unpacked(fs, target, tree.entries) ELSE fs
          /\ op' = IF o.st.res # "ok" THEN ReadPanicked(op, o)
                   ELSE IF bad THEN Finished(op, "err", "Failed to unpack archive")
                   ELSE IF ended
                     THEN [Finished(op, "ok", "") EXCEPT !.br = o.b, !.src = acc]
                   ELSE [op EXCEPT !.br = o.b, !.src = acc]
  /\ UNCHANGED <<mode, ui, hd, bn, pr, ew, adapterVars, scn>>

NextDecrypt ==
  \/ DStart \/ DOpen \/ DSalt \/ DNonce \/ DHeaderRead \/ DParse \/ DCreate \/ DCopy \/ DUnpack

Next == NextEncrypt \/ Tamper \/ NextDecrypt

Spec == InitFiles /\ [][Next]_vars

\* ------------------------------------------------------------ claims on files
DecryptDone == mode = "files" /\ op.fn = "decrypt" /\ op.pc = "done"

\* the decrypt call ran on the container as encrypt_file left it, with the
\* password it was encrypted under
SamePassword == op.password = 1 /\ scn.tamper = "none"

\* where the round trip should leave the original
Restored == Join(op.output_dir, scn.input[2])

\* C1: encrypt_file and then decrypt_file with the same password leave the
\* original content (a file's bytes, a directory's names and contents) at
\* output_dir/<original name>.
RoundTrip ==
  (DecryptDone /\ op.result = "ok" /\ SamePassword)
    => Exists(fs, Restored) /\ At(fs, Restored) = scn.obj

\* the container is not the input file under another spelling
Sound == Real(scn.container) # Real(scn.input)

\* ... which holds whenever decrypt_file's output is not the container
RoundTripApart ==
  (DecryptDone /\ op.result = "ok" /\ SamePassword /\ Sound /\ Restored # op.input_path)
    => Exists(fs, Restored) /\ At(fs, Restored) = scn.obj

\* ... and then only a failed I/O operation makes decrypt_file fail
DecryptSucceedsApart ==
  (DecryptDone /\ SamePassword /\ Sound /\ Restored # op.input_path /\ ~op.iofail
     /\ op.progress # "dropped")
    => op.result = "ok"

\* ------------------------------------------------------------ the container
EncryptCall == mode = "files" /\ op.fn = "encrypt"

\* ... with the container as the call has left it
EncryptOutput == EncryptCall /\ op.out_file /\ scn.tamper = "none"

DecryptCall == mode = "files" /\ op.fn = "decrypt"

\* the payload encrypt_file reads from the input as it was given
PayloadOf ==
  IF scn.obj.kind = "dir" THEN TarPack(scn.input[2], scn.obj.data) ELSE scn.obj.data

\* the header record encrypt_file builds for the input
HeaderOf ==
  ToVec(FileHeaderNew(scn.obj.kind = "dir", scn.obj.kind = "dir", ENCRYPTION_VERSION,
                      XChaCha20, scn.input[2], PathStr(scn.input)).h).bytes

PayloadStart == HeaderStart + FILE_HEADER_SIZE

\* the container is a file of its own, not the input under another spelling
Apart == Real(op.file_path) # Real(op.input_path)

\* the bytes decrypt_file has taken from the container
Taken == op.br.off - Len(op.br.buf)

\* the decrypted bytes the DecryptingReader holds and has not served yet
Unserved == Drop(dr.buffer, dr.pos)

\* the decrypted payload bytes decrypt_file has passed on
Written ==
  IF op.packed THEN op.src
  ELSE IF op.out_file THEN At(fs, op.file_path).data
  ELSE <<>>

\* what encrypt_file has written is a prefix of: salt line, nonce, header,
\* payload; each part is complete before the next begins
WrittenInOrder ==
  EncryptOutput =>
    LET data == At(fs, op.file_path).data
        n == Len(data)
        salt_line == Plain(SaltText(op.salt) \o <<10>>)
        nonce == Plain(NonceBytes(op.nonce))
    IN /\ Len(salt_line) = SaltLineLen
       /\ \A i \in 1..n :
            IF i <= SaltLineLen THEN data[i] = salt_line[i]
            ELSE IF i <= HeaderStart THEN data[i] = nonce[i - SaltLineLen]
            ELSE IF i <= PayloadStart
              THEN data[i].v = op.file_h_vec[i - HeaderStart] /\ data[i].m # {}
            ELSE Apart => /\ i - PayloadStart <= Len(PayloadOf)
                          /\ data[i].v = PayloadOf[i - PayloadStart].v
                          /\ data[i].m # {}
       /\ op.pc = "salt" => n = 0
       /\ op.pc = "nonce" => n = SaltLineLen
       /\ op.pc = "header" => n = HeaderStart
       /\ op.pc \in {"open", "copy", "flush"} => n >= PayloadStart
       /\ (op.pc = "done" /\ op.result = "ok") => n = PayloadStart + Len(PayloadOf)

\* decrypt_file takes the parts of an untouched container in that order
ConsumedInOrder ==
  (DecryptCall /\ scn.tamper = "none") =>
    /\ op.pc = "nonce" => Taken = SaltLineLen /\ Vals(op.header) = SaltText(scn.salt)
    /\ (op.pc = "header" /\ op.header = <<>>)
         => Taken = HeaderStart /\ op.nonce = scn.nonce /\ dr.buffer = <<>>
    /\ op.pc = "parse" => /\ Len(op.header) = FILE_HEADER_SIZE
                          /\ Taken - Len(Unserved) = PayloadStart

\* C3: encrypt_file writes the salt line, the NONCE_SIZE nonce bytes, the
\* FILE_HEADER_SIZE encrypted header bytes and then the encrypted payload,
\* in this order with nothing in between and no payload byte before the
\* header is complete; decrypt_file consumes the container in that order.
ContainerOrder == WrittenInOrder /\ ConsumedInOrder

ContainerOrderSeen ==
  /\ DecryptCall /\ scn.tamper = "none" /\ op.pc = "parse"
  /\ Len(PayloadOf) > CHUNK
  /\ Len(At(fs, op.input_path).data) = PayloadStart + Len(PayloadOf)

\* the keystream position combined into byte i of the container
KeyAt(i) == {<<op.password, op.salt, op.nonce, i - HeaderStart - 1>>}

EncryptContinuous ==
  EncryptOutput =>
    LET data == At(fs, op.file_path).data
    IN /\ \A i \in (HeaderStart + 1)..Len(data) :
            (i <= PayloadStart \/ Apart) => data[i].m = KeyAt(i)
       /\ op.pc \in {"open", "copy", "flush"}
            => ew.cipher = [pw |-> op.password, salt |-> op.salt, nonce |-> op.nonce,
                            pos |-> FILE_HEADER_SIZE + op.inOff - Len(ew.buffer)]

DecryptContinuous ==
  (DecryptCall /\ SamePassword) =>
    /\ op.pc \in {"header", "parse"}
         => IsPlain(op.header) /\ Vals(op.header) = Take(HeaderOf, Len(op.header))
    /\ op.pc \in {"header", "parse", "create", "unpack", "copy"}
         => dr.cipher = [pw |-> op.password, salt |-> scn.salt, nonce |-> scn.nonce,
                         pos |-> Taken - HeaderStart]
    /\ (op.pc \in {"create", "unpack", "copy"} \/ (op.pc = "done" /\ op.result = "ok"))
         => Written \o Unserved = Take(PayloadOf, Taken - PayloadStart)

Stemmed(name) ==
  LET cut == {k \in 2..Len(name) : name[k] = 46 /\ \A j \in (k + 1)..Len(name) : name[j] # 46}
  IN IF cut = {} THEN name ELSE SubSeq(name, 1, (CHOOSE k \in cut : TRUE) - 1)

DOT_SNC == <<46, 115, 110, 99>>

PathChosen == EncryptCall /\ op.file_path # NoPath

InputNotOverwritten ==
  (EncryptCall /\ scn.present /\ ~scn.removed) =>
    /\ op.file_path # op.input_path
    /\ Exists(fs, scn.input) /\ At(fs, scn.input) = scn.obj

\* ... the path does differ from the input path as PathBuf compares them
PathDiffers == PathChosen => op.file_path # op.input_path

\* ------------------------------------------------------------ failures
\* the container is too short, or its salt line is not the text of a salt,
\* or its header decrypts (under the password given) to an invalid record
BadContainer ==
  \/ scn.tamper \in {"empty", "salt_cut", "nonce_cut", "header_cut", "salt_bad", "salt_short"}
  \/ scn.tamper \in {"method", "name_utf8", "path_utf8"} /\ op.password = 1

\* C8: decrypt_file on a container with an invalid header, a malformed salt
\* line or too few bytes returns an error, without a panic and without
\* creating or changing anything.
BadContainerRejected ==
  (DecryptDone /\ BadContainer /\ ~op.iofail)
    => op.result = "err" /\ fs = scn.before

\* ... which holds for all of them but the salt Argon2 refuses
BadContainerRejectedButShortSalt ==
  (DecryptDone /\ BadContainer /\ scn.tamper # "salt_short" /\ ~op.iofail)
    => op.result = "err" /\ fs = scn.before

\* C9: a call in which an I/O operation failed returns an error; it does
\* not panic.
IoErrorReturned ==
  (mode = "files" /\ op.pc = "done" /\ op.iofail) => op.result = "err"

\* C11: encrypt_file returns an error, and does not panic, when the input
\* exists but is neither a regular file nor a directory, and when it is
\* removed between the existence check and the classification.
UnclassifiableRejected ==
  (EncryptCall /\ op.pc = "done" /\ scn.present
     /\ (scn.obj.kind = "special" \/ scn.removed))
    => op.result = "err"

\* ... what happens is the panic of the unwrap on FileDir::what
UnclassifiablePanics ==
  (EncryptCall /\ op.pc = "done" /\ scn.present
     /\ (scn.obj.kind = "special" \/ scn.removed))
    => op.result = "panic" /\ op.msg = "unwrap on FileDir::what"

\* C10: encrypt_file on a path that does not exist returns an error and
\* changes nothing: no file is created or truncated, no salt or nonce is
\* drawn or written.
MissingInputRejected ==
  (EncryptCall /\ ~scn.present) =>
    /\ fs = <<>>
    /\ op.salt = 0 /\ op.nonce = 0 /\ ~op.out_file
    /\ op.pc \in {"start", "done"}
    /\ op.pc = "done" => op.result = "err" /\ op.msg = "Input path does not exist"

MissingInputRejectedSeen ==
  EncryptCall /\ ~scn.present /\ op.pc = "done" /\ op.result = "err" /\ fs = <<>>

\* ------------------------------------------------------------------ progress
\* The order of two samples as the f64 values they stand for: n / d with a
\* known total d, n alone without one.  A total of 0 makes the positive counts
\* +inf, which compare equal, and the count 0 NaN, which compares to nothing.
SampleLeq(a, b) ==
  IF a.d = NoTotal \/ b.d = NoTotal THEN a.d = b.d /\ a.n <= b.n
  ELSE IF a.d = 0 \/ b.d = 0
    THEN (b.d = 0 /\ b.n > 0) /\ (a.d = 0 => a.n > 0)
    ELSE a.n * b.d <= b.n * a.d

\* C12: within one encrypt or decrypt operation the progress samples sent to
\* the sink never decrease.
ProgressMonotone ==
  mode = "files" =>
    \A i \in 1..(Len(sent) - 1) : SampleLeq(sent[i], sent[i + 1])

\* an encryption and a decryption that each sent several samples
ProgressMonotoneSeen == DecryptCall /\ op.pc = "done" /\ Len(sent) >= 2

ProgressMonotoneSeenEncrypt == EncryptCall /\ op.pc = "done" /\ Len(sent) >= 3

\* an operation with a live progress sink that returned Ok
Reported ==
  mode = "files" /\ op.pc = "done" /\ op.result = "ok" /\ op.progress = "live"

LastSample == sent[Len(sent)]

\* C13: when an operation with a progress sink and a known total completes
\* successfully, the last sample it emitted is exactly 1.0, for the
\* encryption of a file, of a directory, and for a decryption.
LastSampleIsOne ==
  (Reported /\ Len(sent) > 0) => LastSample.d > 0 /\ LastSample.n = LastSample.d

\* ... which is so for the encryption of a regular file only
FileEncryptEndsAtOne ==
  (Reported /\ EncryptCall /\ scn.obj.kind = "file" /\ Len(sent) > 0)
    => LastSample.d > 0 /\ LastSample.n = LastSample.d

\* ... a decryption never counts the salt line and the nonce, which the total does
DecryptEndsBelowOne ==
  (Reported /\ DecryptCall /\ Len(sent) > 0)
    => LastSample.d > 0 /\ LastSample.n < LastSample.d

\* C14: every sample emitted while the total is known lies in [0, 1]: the
\* count never exceeds the total, for directory inputs and for inputs of
\* measured size 0 too.
SamplesInUnitInterval ==
  (mode = "files" /\ (EncryptCall => Apart)) =>
    \A i \in 1..Len(sent) :
      sent[i].d # NoTotal => sent[i].d > 0 /\ 0 <= sent[i].n /\ sent[i].n <= sent[i].d

\* ... which is so for what is not a directory
SamplesInUnitIntervalButDirectories ==
  (mode = "files" /\ (EncryptCall => Apart /\ scn.obj.kind # "dir")) =>
    \A i \in 1..Len(sent) :
      sent[i].d # NoTotal => sent[i].d > 0 /\ 0 <= sent[i].n /\ sent[i].n <= sent[i].d

\* C15: with a sender whose receiver has been dropped the adapters' calls
\* end as they do without a sink: the failed send is ignored and the
\* operation is not aborted.
DroppedReceiverIgnored ==
  (mode = "files" /\ op.pc = "done" /\ op.progress = "dropped")
    => op.msg # "unwrap on progress send"

\* ... no operation with a dropped receiver gets past its first sample
DroppedReceiverAborts ==
  (mode = "files" /\ op.pc = "done" /\ op.progress = "dropped" /\ op.result = "ok")
    => /\ ew.total_bytes_processed = 0
       /\ op.fn = "decrypt" => dr.total_bytes_processed <= CHUNK + FILE_HEADER_SIZE

\* ----------------------------------------------------------- salt and nonce
\* encrypt_file as a function of its draws: the container it leaves for the
\* input of the call when the generators return this salt and this nonce
Sealed(salt, nonce) ==
  LET c == CipherNew(op.password, SaltId(SaltText(salt)), NonceId(NonceBytes(nonce)))
      w == EncryptingWriterNew(CipherAdvanced(c, Len(HeaderOf)))
      st == WriterWrite(w, PayloadOf, 0)
      fl == WriterFlush(st.w, FALSE, FALSE)
  IN Plain(SaltText(salt) \o <<10>>) \o Plain(NonceBytes(nonce))
       \o HeaderKeystream(c, HeaderOf) \o st.out \o fl.out

\* an encrypt_file call that returned Ok and left a container of its own
Encrypted ==
  EncryptCall /\ op.pc = "done" /\ op.result = "ok" /\ Apart /\ scn.tamper = "none"

\* C16: each encrypt_file call draws its salt and nonce once, before any
\* output byte; the drawn values initialise the cipher and are the ones
\* written, nothing comes from the ShinCrypt value; the same content under
\* the same password and other draws gives another container, and each
\* container decrypts to the original.
FreshDraws ==
  /\ (EncryptCall /\ op.pc \in {"start", "classify", "params"})
       => op.salt = 0 /\ op.nonce = 0 /\ op.cipher = NoCipher /\ ~op.out_file
  /\ (EncryptCall /\ op.out_file) => op.salt \in Salts /\ op.nonce \in Nonces
  /\ Encrypted =>
       /\ At(fs, op.file_path).data = Sealed(op.salt, op.nonce)
       /\ scn.salt = op.salt /\ scn.nonce = op.nonce
       /\ \A salt \in Salts, nonce \in Nonces :
            <<salt, nonce>> # <<op.salt, op.nonce>>
              => Sealed(salt, nonce) # At(fs, op.file_path).data
  /\ RoundTripApart

\* a container sealed under the second salt and the first nonce, decrypted
FreshDrawsSeen ==
  /\ DecryptDone /\ op.result = "ok" /\ SamePassword /\ Sound /\ Restored # op.input_path
  /\ scn.salt = 2 /\ scn.nonce = 1
  /\ Len(PayloadOf) > CHUNK

\* ------------------------------------------------------- the wrong password
\* decrypt_file under another password than the container's, once the
\* header has been decoded
WrongPassword ==
  DecryptCall /\ op.password # 1 /\ scn.tamper = "none" /\ op.decoded # <<>>

\* nothing but a failed I/O operation or a failed send stands in the way
Undisturbed == ~op.iofail /\ op.progress # "dropped"

WrittenHeader == FromVec(op.file_h_vec).h

\* C18: in the header encrypt_file writes, the file flag is set exactly for
\* a regular file, and the packed flag exactly for a directory.
FlagsTellKind ==
  Encrypted =>
    /\ WrittenHeader.file = (scn.obj.kind = "file")
    /\ WrittenHeader.packed = (scn.obj.kind = "dir")

\* ... both flags are set exactly for a directory
FlagsBothTellDirectory ==
  Encrypted =>
    /\ WrittenHeader.file = (scn.obj.kind = "dir")
    /\ WrittenHeader.packed = (scn.obj.kind = "dir")
    /\ HeaderKeystream(CipherNew(op.password, op.salt, op.nonce), op.file_h_vec)
         = SubSeq(At(fs, op.file_path).data, HeaderStart + 1, PayloadStart)

\* ----------------------------------------------------------- the payload
\* the payload of the container an encrypt_file call has written
WrittenPayload == Drop(At(fs, op.file_path).data, PayloadStart)

\* C19: for a regular file encrypt_file adds no archive framing: the payload
\* has the input's bytes and no more, and the container is as long as the
\* salt line, the nonce, the header and the input together; only a
\* directory gives an archive stream.
NoFramingForFiles ==
  /\ (Encrypted /\ scn.obj.kind = "file") =>
       /\ ~op.packed
       /\ Vals(WrittenPayload) = Vals(scn.obj.data)
       /\ Len(At(fs, op.file_path).data)
            = SaltLineLen + NONCE_SIZE + FILE_HEADER_SIZE + Len(scn.obj.data)
  /\ (Encrypted /\ scn.obj.kind = "dir") =>
       /\ op.packed
       /\ Vals(WrittenPayload) = Vals(TarPack(scn.input[2], scn.obj.data))

\* a file of more than two chunks, encrypted
NoFramingForFilesSeen ==
  Encrypted /\ scn.obj.kind = "file" /\ Len(scn.obj.data) > 2 * CHUNK

\* ------------------------------------------------------------- the dispatch
\* decrypt_file past a header that validated
Dispatched == DecryptCall /\ op.decoded # <<>> /\ FromVec(op.decoded).kind = "ok"

Decoded == FromVec(op.decoded).h

\* output_dir.join(header.name)
Target == JoinName(op.output_dir, Decoded.name)

\* the bytes left of the container after its header, as this call decrypts them
Remaining ==
  KeystreamApplied(CipherAdvanced(CipherNew(op.password, scn.salt, scn.nonce),
                                  FILE_HEADER_SIZE),
                   Drop(At(scn.before, scn.container).data, PayloadStart))

\* C20: decrypt_file dispatches on the packed flag alone.  Set: the stream
\* is unpacked as an archive and decrypt_file creates no file
\* output_dir/header.name itself.  Clear: the remaining decrypted bytes are
\* copied into the one file output_dir/header.name.  The file flag and the
\* version have no part in it.
DispatchOnPacked ==
  Dispatched =>
    /\ op.pc = "unpack" => Decoded.packed
    /\ op.pc \in {"create", "copy"} => ~Decoded.packed
    /\ Decoded.packed =>
         /\ ~op.out_file
         /\ \A p \in DOMAIN fs :
              (p \notin DOMAIN scn.before \/ fs[p] # scn.before[p]) => fs[p].kind = "dir"
    /\ (~Decoded.packed /\ op.pc = "done" /\ op.result = "ok") =>
         /\ DOMAIN fs = DOMAIN scn.before \cup {Real(Target)}
         /\ \A p \in DOMAIN scn.before : p # Real(Target) => fs[p] = scn.before[p]
         /\ At(fs, Target).kind = "file"
         /\ (scn.tamper = "none" /\ Real(Target) # Real(scn.container))
              => At(fs, Target).data = Remaining

\* a header whose file flag is set and whose packed flag is clear, of a
\* version encrypt_file does not write: one file is written
DispatchOnPackedSeen ==
  /\ Dispatched /\ op.pc = "done" /\ op.result = "ok"
  /\ Decoded.file /\ ~Decoded.packed /\ Decoded.version # ENCRYPTION_VERSION
  /\ Exists(fs, Target) /\ ~Exists(scn.before, Target)
  /\ Len(At(fs, Target).data) > 0

\* ---------------------------------------------------------------- benchmark
\* ShinCrypt::benchmark on its scratch directory <exe dir>/benchmark: the
\* synthetic file is generated, encrypted, decrypted, and the directory
\* removed.  The two calls are taken by their outcome: Ok, Err, or a panic.
\* bn.files are the names in the scratch directory while it exists.
BENCHMARK_EXT == <<98, 101, 110, 99, 104, 109, 97, 114, 107>>

\* gen_file: benchmark_dir.join(ENCRYPTION_EXT).with_extension(BENCHMARK_EXT)
BenchFile == WithExtension(Join(BENCHMARK_EXT, ENCRYPTION_EXT), BENCHMARK_EXT)

\* the path benchmark gives decrypt_file: the file's path with its extension set
BenchContainer == WithExtension(BenchFile, ENCRYPTION_EXT)

\* The scratch directory may be there from an earlier run, with what it
\* left and a file "o" of another name.  A panic of the benchmark thread,
\* which join().unwrap() hands on, ends the call with result "panic".
InitBench ==
  /\ mode = "bench"
  /\ \E dir \in BOOLEAN, left \in SUBSET {BenchFile[2], BenchContainer[2], <<111>>} :
       /\ ~dir => left = {}
       /\ bn = [BenchIdle EXCEPT !.pc = "gen_dir", !.dir = dir, !.files = left]
  /\ pr = <<>>
  /\ ui = UiIdle
  /\ ew = EncryptingWriterNew(NoCipher)
  /\ dr = DecryptingReaderNew(NoCipher)
  /\ sent = <<>>
  /\ hd = HdIdle
  /\ IdleAdapter
  /\ IdleFiles

\* gen_file, lines 602-604: create_dir_all(..).unwrap(); nothing is to be
\* created, and nothing fails, when the directory is there
BGenDir ==
  /\ mode = "bench" /\ bn.pc = "gen_dir"
  /\ \E fail \in (IF bn.dir THEN {FALSE} ELSE BOOLEAN) :
       bn' = IF fail THEN [bn EXCEPT !.pc = "done", !.result = "panic"]
             ELSE [bn EXCEPT !.pc = "gen_create", !.dir = TRUE]
  /\ UNCHANGED <<mode, ui, hd, pr, sharedVars, adapterVars, fileVars>>

\* gen_file, lines 605-607: File::create(..).unwrap()
BGenCreate ==
  /\ mode = "bench" /\ bn.pc = "gen_create"
  /\ \E fail \in BOOLEAN :
       bn' = IF fail THEN [bn EXCEPT !.pc = "done", !.result = "panic"]
             ELSE [bn EXCEPT !.pc = "gen_fill", !.files = bn.files \cup {BenchFile[2]}]
  /\ UNCHANGED <<mode, ui, hd, pr, sharedVars, adapterVars, fileVars>>

\* gen_file, lines 609-615: getrandom::fill(..).unwrap() and write_all(..).unwrap()
BGenFill ==
  /\ mode = "bench" /\ bn.pc = "gen_fill"
  /\ \E fail \in BOOLEAN :
       bn' = IF fail THEN [bn EXCEPT !.pc = "done", !.result = "panic"] ELSE [bn EXCEPT !.pc = "encrypt"]
  /\ UNCHANGED <<mode, ui, hd, pr, sharedVars, adapterVars, fileVars>>

\* lines 568-577: encrypt_file on the file; an Err is printed and dropped.
\* The container is there once encrypt_file got past File::create.
BEncrypt ==
  /\ mode = "bench" /\ bn.pc = "encrypt"
  /\ \E out \in {"ok", "err", "panic"}, created \in BOOLEAN, t \in {1, 2} :
       /\ out \in {"ok", "panic"} => created
       /\ LET files == IF created THEN bn.files \cup {BenchContainer[2]} ELSE bn.files
          IN bn' = IF out = "panic" THEN [bn EXCEPT !.files = files, !.enc = out, !.pc = "done", !.result = "panic"]
                   ELSE [bn EXCEPT !.pc = "decrypt", !.files = files, !.enc = out,
                                   !.encrypt_time = t]
  /\ UNCHANGED <<mode, ui, hd, pr, sharedVars, adapterVars, fileVars>>

\* lines 579-589: decrypt_file on the container's path; an Err is printed
\* and dropped.  Without a container the call fails on opening it.
BDecrypt ==
  /\ mode = "bench" /\ bn.pc = "decrypt"
  /\ \E out \in (IF BenchContainer[2] \in bn.files THEN {"ok", "err", "panic"} ELSE {"err"}),
        t \in {1, 2} :
       bn' = IF out = "panic" THEN [bn EXCEPT !.dec = out, !.pc = "done", !.result = "panic"]
             ELSE [bn EXCEPT !.pc = "remove", !.dec = out, !.decrypt_time = t]
  /\ UNCHANGED <<mode, ui, hd, pr, sharedVars, adapterVars, fileVars>>

\* lines 591-592: remove_dir_all(output_dir).unwrap(), Ok((encrypt_time, decrypt_time))
BRemove ==
  /\ mode = "bench" /\ bn.pc = "remove"
  /\ \E fail \in BOOLEAN :
       bn' = IF fail THEN [bn EXCEPT !.pc = "done", !.result = "panic"]
             ELSE [bn EXCEPT !.pc = "done", !.result = "ok", !.dir = FALSE, !.files = {}]
  /\ UNCHANGED <<mode, ui, hd, pr, sharedVars, adapterVars, fileVars>>

SpecBench ==
  InitBench /\ [][BGenDir \/ BGenCreate \/ BGenFill \/ BEncrypt \/ BDecrypt \/ BRemove]_vars

\* benchmark is over: it returned, or it panicked
BenchOver == mode = "bench" /\ bn.pc = "done"

\* C21: whenever benchmark is over, with success or with a failure of the
\* generation, of the encrypt step or of the decrypt step, the scratch
\* directory has been deleted.
ScratchDeleted == BenchOver => ~bn.dir

\* ... which is so when benchmark returns its pair of durations, also after
\* a step that returned Err
ScratchDeletedOnReturn == (BenchOver /\ bn.result = "ok") => ~bn.dir

\* ------------------------------------------------------ two calls side by side
\* Two encrypt_file calls on two different input files of directory "A",
\* each on a thread of its own, sharing the file system and nothing else.
\* pr[k] is call k: its paths, its position, the write it is at and the
\* offset of its handle.  Call k draws salt k and nonce k.  "r.p" and "r.t"
\* differ in their extension only, "r.p" and "s.p" in their stem.
InitPair ==
  /\ mode = "pair"
  /\ \E names \in {<<<<114, 46, 112>>, <<114, 46, 116>>>>, <<<<114, 46, 112>>, <<115, 46, 112>>>>},
        outs \in Dirs \X Dirs, lens \in {1, CHUNK + 1} \X {1, CHUNK + 1} :
       /\ fs = [q \in {<<<<65>>, names[k]>> : k \in 1..2} |->
                  RegularFile(Payload(IF q[2] = names[1] THEN lens[1] ELSE lens[2]))]
       /\ pr = [k \in 1..2 |->
                  [pc |-> "create", input_path |-> <<<<65>>, names[k]>>, output_dir |-> outs[k],
                   file_path |-> NoPath, piece |-> 1, outOff |-> 0]]
  /\ op = OpIdle
  /\ scn = ScnIdle
  /\ bn = BenchIdle
  /\ ui = UiIdle
  /\ ew = EncryptingWriterNew(NoCipher)
  /\ dr = DecryptingReaderNew(NoCipher)
  /\ sent = <<>>
  /\ hd = HdIdle
  /\ IdleAdapter

\* the four writes of call k on its container: the salt line, the nonce,
\* the header under the keystream, the payload through the EncryptingWriter
PairPieces(k) ==
  LET input_path == pr[k].input_path
      c == CipherNew(1, SaltId(SaltText(k)), NonceId(NonceBytes(k)))
      vec == ToVec(FileHeaderNew(FALSE, FALSE, ENCRYPTION_VERSION, XChaCha20,
                                 input_path[2], PathStr(input_path)).h).bytes
      w == EncryptingWriterNew(CipherAdvanced(c, Len(vec)))
      st == WriterWrite(w, At(fs, input_path).data, 0)
      fl == WriterFlush(st.w, FALSE, FALSE)
  IN <<Plain(SaltText(k) \o <<10>>), Plain(NonceBytes(k)), HeaderKeystream(c, vec),
       st.out \o fl.out>>

\* lines 398-413 of call k: the container's path, File::create
PCreate(k) ==
  /\ mode = "pair" /\ pr[k].pc = "create"
  /\ LET file_path == ContainerPath(pr[k].input_path, pr[k].output_dir)
     IN /\ fs' = FileCreated(fs, file_path)
        /\ pr' = [pr EXCEPT ![k].pc = "write", ![k].file_path = file_path]
  /\ UNCHANGED <<mode, ui, hd, bn, sharedVars, adapterVars, op, scn>>

\* lines 416-474 of call k: its next write through its own handle
PWrite(k) ==
  /\ mode = "pair" /\ pr[k].pc = "write"
  /\ LET bytes == PairPieces(k)[pr[k].piece]
     IN /\ fs' = FileWritten(fs, pr[k].file_path, pr[k].outOff, bytes)
        /\ pr' = [pr EXCEPT ![k].outOff = pr[k].outOff + Len(bytes),
                            ![k].piece = pr[k].piece + 1,
                            ![k].pc = IF pr[k].piece = 4 THEN "done" ELSE "write"]
  /\ UNCHANGED <<mode, ui, hd, bn, sharedVars, adapterVars, op, scn>>

SpecPair == InitPair /\ [][\E k \in 1..2 : PCreate(k) \/ PWrite(k)]_vars

\* what call k writes, from its first byte to its last
PairContainer(k) ==
  PairPieces(k)[1] \o PairPieces(k)[2] \o PairPieces(k)[3] \o PairPieces(k)[4]

\* C22: two encrypt_file calls running side by side on two different input
\* files never create or write the same path, also when they share the
\* output directory and the inputs differ in their extension only; each
\* container ends up holding the bytes of its own call.
PairApart ==
  mode = "pair" =>
    /\ (pr[1].pc # "create" /\ pr[2].pc # "create")
         => Real(pr[1].file_path) # Real(pr[2].file_path)
    /\ \A k \in 1..2 :
         (pr[1].pc = "done" /\ pr[2].pc = "done")
           => At(fs, pr[k].file_path).data = PairContainer(k)

\* the two calls are given inputs of one stem and one output directory
PairSameStem ==
  /\ FileStem(pr[1].input_path[2]) = FileStem(pr[2].input_path[2])
  /\ pr[1].output_dir = pr[2].output_dir

\* ... which is so unless the inputs have one stem and the calls one
\* output directory
PairApartByStem ==
  (mode = "pair" /\ ~PairSameStem) =>
    /\ (pr[1].pc # "create" /\ pr[2].pc # "create")
         => Real(pr[1].file_path) # Real(pr[2].file_path)
    /\ \A k \in 1..2 :
         (pr[1].pc = "done" /\ pr[2].pc = "done")
           => At(fs, pr[k].file_path).data = PairContainer(k)

\* ------------------------------------------------------- the sink's writes
\* n repetitions of x
Repeated(x, n) == [i \in 1..n |-> x]

\* C23: after every successful write call (in a run where no inner write
\* failed) the sink's buffer holds fewer than CHUNK
\* bytes and every write_all made during write carries exactly CHUNK bytes;
\* n bytes and a flush give floor(n / CHUNK) writes of CHUNK bytes and, iff
\* n mod CHUNK # 0, one shorter last write, however the caller splits the n
\* bytes over its write calls.
ChunkedWrites ==
  (mode = "adapter" /\ "failed" \notin hist) =>
    /\ Len(ew.buffer) < CHUNK
    /\ aphase = "write" => down = Repeated(CHUNK, fed \div CHUNK)
    /\ aphase # "write" =>
         down = Repeated(CHUNK, Len(plain) \div CHUNK)
                  \o (IF Len(plain) % CHUNK # 0 THEN <<Len(plain) % CHUNK>> ELSE <<>>)

\* two and a half chunks, written in several pieces and flushed
ChunkedWritesSeen ==
  /\ mode = "adapter" /\ aphase = "flushed" /\ "split" \in hist
  /\ Len(plain) = 2 * CHUNK + CHUNK \div 2
  /\ down = <<CHUNK, CHUNK, CHUNK \div 2>>

\* --------------------------------------------------------- the sink's flush
\* a step that is a flush call
FlushStep == aphase \in {"write", "flushed"} /\ aphase' \in {"flushed", "flushed2"}

\* C24: flush transforms and writes what the buffer holds once and leaves
\* the buffer empty; with an empty buffer it writes nothing, takes no
\* keystream and sends no sample, so a second flush right after the first
\* changes nothing downstream.
FlushOnce ==
  [][(mode = "adapter" /\ FlushStep) =>
       /\ ew'.buffer = <<>>
       /\ wire' = wire \o KeystreamApplied(ew.cipher, ew.buffer)
       /\ ew'.cipher = CipherAdvanced(ew.cipher, Len(ew.buffer))
       /\ "failed" \notin hist => wire' = KeystreamApplied(AdapterCipher, plain)
       /\ ew.buffer = <<>> => wire' = wire /\ down' = down /\ sent' = sent /\ ew' = ew
       /\ aphase = "flushed" => ew.buffer = <<>>]_vars

\* a second flush after a first one that had a partial chunk to write
FlushOnceSeen ==
  /\ mode = "adapter" /\ aphase = "flushed2"
  /\ Len(plain) = CHUNK + 1
  /\ down = <<CHUNK, 1>>

\* ------------------------------------------------- the sink's progress samples
RECURSIVE SumTo(_, _)
\* the sum of the first i members of a sequence of numbers
SumTo(q, i) == IF i = 0 THEN 0 ELSE SumTo(q, i - 1) + q[i]

\* C25: with a sender attached every chunk written downstream is followed
\* by one sample, the bytes written downstream so far over the total (the
\* bare count when no total is set), so there are as many samples as chunk
\* writes; the sink's counter is the number of bytes written downstream
\* with or without a sender.
SamplePerChunk ==
  mode = "adapter" =>
    /\ ew.total_bytes_processed = Len(wire)
    /\ ew.total_bytes_processed = SumTo(down, Len(down))
    /\ ew.sender = "none" => sent = <<>>
    /\ ew.sender = "live" =>
         /\ Len(sent) = Len(down)
         /\ \A i \in 1..Len(down) :
              sent[i] = [n |-> SumTo(down, i), d |-> ew.total_input_size]

\* full chunks and a final partial one reported as bare counts
SamplePerChunkSeen ==
  /\ mode = "adapter" /\ aphase = "flushed"
  /\ ew.sender = "live" /\ ew.total_input_size = NoTotal
  /\ down = <<CHUNK, CHUNK, CHUNK \div 2>>
  /\ Len(sent) = 3
  /\ sent[3].n = 2 * CHUNK + CHUNK \div 2

\* the same chunks reported as fractions of the total
SamplePerChunkSeenOfTotal ==
  /\ mode = "adapter" /\ aphase = "flushed"
  /\ ew.sender = "live" /\ ew.total_input_size = Len(plain)
  /\ Len(down) = 2 /\ Len(sent) = 2

\* ------------------------------------------------- the source's read results
\* a step that is a read call (its caller buffer is never empty)
ReadStep ==
  aphase \in {"flushed", "flushed2", "read", "eof"} /\ aphase' \in {"read", "eof", "panic"}

\* C26: a read returns 0 only when the inner read made by that call
\* returned 0 bytes; while decrypted bytes are unserved a read returns at
\* least one byte and makes no inner read.
ZeroOnlyAtEnd ==
  [][(mode = "adapter" /\ ReadStep) =>
       /\ (aphase' # "panic" /\ Len(served') = Len(served)) =>
            /\ dr.pos = Len(dr.buffer)
            /\ wireOff = Len(wire) /\ wireOff' = wireOff
            /\ aphase' = "eof"
       /\ dr.pos < Len(dr.buffer) =>
            /\ Len(served') > Len(served)
            /\ wireOff' = wireOff
            /\ dr'.buffer = dr.buffer /\ dr'.cipher = dr.cipher]_vars

\* one refill of a full chunk served by two reads, the second from the buffer
ZeroOnlyAtEndSeen ==
  /\ mode = "adapter" /\ aphase = "read"
  /\ wireOff = CHUNK /\ Len(dr.buffer) = CHUNK
  /\ dr.pos = 4 /\ Len(served) = 4

\* ------------------------------------------------- the source's bytes
\* C27: every byte the source has taken from the inner reader is
\* transformed once with the keystream byte of its own offset and served
\* once and in order, for every caller buffer size and every pattern of
\* short inner reads; the keystream spent is the number of bytes taken.
EachByteOnce ==
  mode = "adapter" /\ aphase \in {"flushed", "flushed2", "read", "eof"} =>
    /\ served \o Unserved = KeystreamApplied(AdapterCipher, Take(wire, wireOff))
    /\ dr.cipher = CipherAdvanced(AdapterCipher, wireOff)
    /\ dr.total_bytes_processed = wireOff

\* after a short inner read and a later refill, part of the way through
\* the buffer
EachByteOnceSeen ==
  /\ mode = "adapter" /\ aphase = "read" /\ "short" \in hist
  /\ wireOff > CHUNK /\ Len(served) > CHUNK
  /\ 0 < dr.pos /\ dr.pos < Len(dr.buffer)
  /\ Len(dr.buffer) < CHUNK /\ wireOff < Len(wire)

\* ------------------------------------------------- the record to_vec writes
\* to_vec has been called on the header that new built
ToVecCalled == mode = "header" /\ hd.phase \in {"vec", "back", "panic"} /\ hd.built.kind = "ok"

\* the record of a name and a path with the given numbers in its two
\* length fields
RecordOf(name_len, path_len) ==
  LET laid == ToLeBytes(BoolU16(hd.packed)) \o ToLeBytes(BoolU16(hd.file))
              \o ToLeBytes(ENCRYPTION_VERSION) \o ToLeBytes(XChaCha20)
              \o ToLeBytes(name_len) \o hd.name
              \o ToLeBytes(path_len) \o hd.path
  IN laid \o Zeros(FILE_HEADER_SIZE - Len(laid))

\* C28: to_vec always returns FILE_HEADER_SIZE bytes: the five 2-byte
\* little-endian fields packed, file, version, method and name length, the
\* name, the 2-byte path length, the path, and zeros after it; the two
\* length fields are the numbers of name and path bytes written.
RecordLaidOut ==
  ToVecCalled =>
    /\ hd.vec.kind = "ok"
    /\ Len(hd.vec.bytes) = FILE_HEADER_SIZE
    /\ hd.vec.bytes = RecordOf(Len(hd.name), Len(hd.path))

\* ... where to_vec returns, the record is FILE_HEADER_SIZE bytes in that
\* layout with length fields that are the lengths modulo 2^16
RecordLaidOutWrapped ==
  (ToVecCalled /\ hd.vec.kind = "ok") =>
    /\ Len(hd.vec.bytes) = FILE_HEADER_SIZE
    /\ hd.vec.bytes = RecordOf(AsU16(Len(hd.name)), AsU16(Len(hd.path)))

\* a record that was returned with a name of 2^16 bytes or more in it
RecordLaidOutWrappedSeen ==
  /\ ToVecCalled /\ hd.vec.kind = "ok"
  /\ Len(hd.name) > U16_RANGE
  /\ FromLeBytes(SubSeq(hd.vec.bytes, 9, 10)) = Len(hd.name) - U16_RANGE

\* ------------------------------------------------- what from_vec accepts
\* from_vec has been called
FromVecCalled == mode = "header" /\ hd.phase = "back"

\* C29: from_vec returns an error for every input whose length is not
\* FILE_HEADER_SIZE, shorter or longer, and it is the error of the length
\* check, which comes before any field is taken.
OtherLengthsRejected ==
  (FromVecCalled /\ Len(hd.given) # FILE_HEADER_SIZE) => hd.back = HdrErr("Incorrect header")

\* a record with a byte after it, which holds a header that would decode
OtherLengthsRejectedSeen ==
  /\ FromVecCalled
  /\ Len(hd.given) = FILE_HEADER_SIZE + 1
  /\ RecordFields(Take(hd.given, FILE_HEADER_SIZE)).kind = "ok"
  /\ hd.back.kind = "err"

\* an input cut short by one byte, rejected as well
OtherLengthsRejectedSeenShort ==
  /\ FromVecCalled
  /\ Len(hd.given) = FILE_HEADER_SIZE - 1
  /\ hd.back.kind = "err"

\* the method tag in the fourth field of a record
TagOf(vec) == FromLeBytes(SubSeq(vec, 7, 8))

\* The name and the path of a record are those its two length fields
\* mark out: they lie within the record and are UTF-8.  (With
\* FILE_HEADER_SIZE at 1 MiB two 16-bit lengths always lie within.)
NameAndPathValid(vec) ==
  LET name_len == FromLeBytes(SubSeq(vec, 9, 10))
      path_at == FixedFieldBytes - 2 + name_len
  IN /\ path_at + 2 <= Len(vec)
     /\ ValidUtf8(SubSeq(vec, 11, path_at))
     /\ LET path_len == FromLeBytes(SubSeq(vec, path_at + 1, path_at + 2))
        IN /\ path_at + 2 + path_len <= Len(vec)
           /\ ValidUtf8(SubSeq(vec, path_at + 3, path_at + 2 + path_len))

\* C30: from_vec rejects every record of FILE_HEADER_SIZE bytes whose
\* method tag is not 1, 0 included, whatever its other fields hold, and
\* accepts a record with the tag 1 whose name and path are valid UTF-8.
OnlyTagOne ==
  (FromVecCalled /\ Len(hd.given) = FILE_HEADER_SIZE) =>
    /\ TagOf(hd.given) # 1 => hd.back.kind = "err"
    /\ (TagOf(hd.given) = 1 /\ NameAndPathValid(hd.given)) =>
         hd.back.kind = "ok" /\ hd.back.h.encryption = XChaCha20

\* a record with the tag 0 that is rejected for its tag alone
OnlyTagOneSeen ==
  /\ FromVecCalled /\ Len(hd.given) = FILE_HEADER_SIZE
  /\ TagOf(hd.given) = 0 /\ NameAndPathValid(hd.given)
  /\ hd.name # <<>> /\ hd.path # <<>>
  /\ hd.back = HdrErr("Invalid encryption method")

\* a record with the tag 1 that is accepted
OnlyTagOneSeenAccepted ==
  /\ FromVecCalled /\ Len(hd.given) = FILE_HEADER_SIZE
  /\ TagOf(hd.given) = 1 /\ hd.name # <<>> /\ hd.path # <<>>
  /\ hd.back.kind = "ok"

\* a record with the tag 1 that is rejected for a name that is not UTF-8
OnlyTagOneSeenNotUtf8 ==
  /\ FromVecCalled /\ Len(hd.given) = FILE_HEADER_SIZE
  /\ TagOf(hd.given) = 1
  /\ hd.back = HdrErr("Invalid UTF-8 in name")

\* ---------------------------------------------------------------- front end
\* The window of gtk_ui: the grid with every control in it, the progress
\* bar, the three unbounded channels (encrypt results, decrypt results,
\* progress samples), the worker threads the two buttons spawn, and the
\* idle closure of the main loop.  ui.pc is the place of the main thread in
\* the idle closure ("progress", "e_res", "d_res"); a click is handled
\* between two runs of the closure.  A sample carries the number of its
\* operation and its place among that operation's samples; the bar shows
\* NoSample after set_fraction(0.0).
MaxOps == 2

MaxSamples == 2

NoSample == [op |-> 0, i |-> 0]

InitUi ==
  /\ mode = "ui"
  /\ ui = [pc |-> "progress", sensitive |-> TRUE, fraction |-> NoSample,
           progress |-> <<>>, e_res |-> <<>>, d_res |-> <<>>,
           workers |-> {}, started |-> 0, ended |-> {}, consumed |-> {}, box |-> "none"]
  /\ ew = EncryptingWriterNew(NoCipher)
  /\ dr = DecryptingReaderNew(NoCipher)
  /\ sent = <<>>
  /\ hd = HdIdle
  /\ bn = BenchIdle
  /\ pr = <<>>
  /\ IdleAdapter
  /\ IdleFiles

\* a click handler that leaves the grid as it is
UClickKeepingControls ==
  /\ mode = "ui" /\ ui.pc = "progress" /\ ui.sensitive /\ ui.started < MaxOps
  /\ \E kind \in {"e_res", "d_res"}, valid \in BOOLEAN :
       ui' = IF ~valid THEN [ui EXCEPT !.box = "Error"]
             ELSE [ui EXCEPT !.started = ui.started + 1,
                             !.workers = ui.workers \cup {[op |-> ui.started + 1, kind |-> kind, sent |-> 0]}]
  /\ UNCHANGED <<mode, hd, bn, pr, sharedVars, adapterVars, fileVars>>

\* encrypt_btn / decrypt_btn clicked, which the grid lets through only while
\* it is sensitive: a field is missing, the input does not exist or the
\* output directory cannot be made (a message box, nothing else), or the
\* grid is made insensitive and a worker is spawned with the sender of its
\* result channel and of the progress channel
UClick ==
  /\ mode = "ui" /\ ui.pc = "progress" /\ ui.sensitive /\ ui.started < MaxOps
  /\ \E kind \in {"e_res", "d_res"}, valid \in BOOLEAN :
       ui' = IF ~valid THEN [ui EXCEPT !.box = "Error"]
             ELSE [ui EXCEPT !.sensitive = FALSE, !.started = ui.started + 1,
                             !.workers = ui.workers \cup {[op |-> ui.started + 1, kind |-> kind, sent |-> 0]}]
  /\ UNCHANGED <<mode, hd, bn, pr, sharedVars, adapterVars, fileVars>>

\* a worker sends the next progress sample of its call (the receiver lives
\* as long as the main loop, so the send succeeds)
UWorkerSample ==
  /\ mode = "ui"
  /\ \E w \in ui.workers :
       /\ w.sent < MaxSamples
       /\ ui' = [ui EXCEPT !.progress = Append(ui.progress, [op |-> w.op, i |-> w.sent + 1]),
                           !.workers = (ui.workers \ {w}) \cup {[w EXCEPT !.sent = w.sent + 1]}]
  /\ UNCHANGED <<mode, hd, bn, pr, sharedVars, adapterVars, fileVars>>

\* a worker's call ends: Ok or Err, and the thread sends "Success" or the
\* error text on its result channel; or a panic, which ends the thread
\* before the match that sends
UWorkerEnd ==
  /\ mode = "ui"
  /\ \E w \in ui.workers, out \in {"ok", "err", "panic"} :
       LET msg == [op |-> w.op, text |-> IF out = "ok" THEN "Success" ELSE "error"]
       IN ui' = [ui EXCEPT !.workers = ui.workers \ {w},
                           !.ended = ui.ended \cup {[op |-> w.op, out |-> out]},
                           ![w.kind] = IF out = "panic" THEN ui[w.kind] ELSE Append(ui[w.kind], msg)]
  /\ UNCHANGED <<mode, hd, bn, pr, sharedVars, adapterVars, fileVars>>

\* the idle closure, lines 297-299: one try_recv on the progress channel
UIdleProgress ==
  /\ mode = "ui" /\ ui.pc = "progress"
  /\ ui' = IF ui.progress = <<>> THEN [ui EXCEPT !.pc = "e_res"]
           ELSE [ui EXCEPT !.pc = "e_res", !.fraction = Head(ui.progress),
                           !.progress = Tail(ui.progress)]
  /\ UNCHANGED <<mode, hd, bn, pr, sharedVars, adapterVars, fileVars>>

\* the idle closure, lines 305-335: one try_recv on the encrypt result
\* channel, then one on the decrypt result channel; a result makes the grid
\* sensitive, sets the bar to 0.0 and shows a message box
UIdleResult ==
  /\ mode = "ui" /\ ui.pc \in {"e_res", "d_res"}
  /\ LET next == IF ui.pc = "e_res" THEN "d_res" ELSE "progress"
     IN ui' = IF ui[ui.pc] = <<>> THEN [ui EXCEPT !.pc = next]
              ELSE [ui EXCEPT !.pc = next, !.sensitive = TRUE, !.fraction = NoSample,
                              ![ui.pc] = Tail(ui[ui.pc]),
                              !.consumed = ui.consumed \cup {Head(ui[ui.pc]).op},
                              !.box = IF Head(ui[ui.pc]).text = "Success" THEN "Success" ELSE "Failed"]
  /\ UNCHANGED <<mode, hd, bn, pr, sharedVars, adapterVars, fileVars>>

SpecUi ==
  InitUi /\ [][UClick \/ UWorkerSample \/ UWorkerEnd \/ UIdleProgress \/ UIdleResult]_vars

\* ------------------------------------------------- what benchmark reports
\* the encrypt step or the decrypt step of the benchmark failed
BenchStepFailed == bn.enc \in {"err", "panic"} \/ bn.dec \in {"err", "panic"}

\* C31: when the encrypt step or the decrypt step fails inside benchmark,
\* benchmark reports a failure to its caller and does not return a pair of
\* durations.
StepFailureReported == (BenchOver /\ BenchStepFailed) => bn.result # "ok"

\* ... a step that returned Err is printed and passed over; only a panic of
\* a step reaches the caller, as a panic
StepPanicReported ==
  (BenchOver /\ (bn.enc = "panic" \/ bn.dec = "panic")) => bn.result = "panic"

\* both steps returned Err and benchmark returned its two durations
StepFailurePassedOver ==
  /\ BenchOver /\ bn.enc = "err" /\ bn.dec = "err"
  /\ bn.result = "ok" /\ bn.encrypt_time > 0 /\ bn.decrypt_time > 0

\* ------------------------------------------------- the record read back
\* from_vec has been called on the record to_vec returned
ReadBack == FromVecCalled /\ hd.given = hd.vec.bytes

\* the header that came back is the header that was written
SameHeader ==
  /\ hd.back.kind = "ok"
  /\ \A f \in {"packed", "file", "version", "encryption", "name", "path"} :
       hd.back.h[f] = hd.built.h[f]

\* C33: for every header whose encoding fits in FILE_HEADER_SIZE bytes,
\* from_vec(to_vec(h)) succeeds with the packed, file, version, method,
\* name and path of h; the zeros after the path do not get into either.
HeaderRoundTrip == ReadBack => SameHeader

\* ... which is so for names and paths of fewer than 2^16 bytes
HeaderRoundTripBelowU16 ==
  (ReadBack /\ Len(hd.name) < U16_RANGE /\ Len(hd.path) < U16_RANGE) => SameHeader

\* a name and a path that fill the record to its last byte, read back
HeaderRoundTripBelowU16Seen ==
  /\ ReadBack /\ SameHeader
  /\ 0 < Len(hd.name) /\ Len(hd.name) < U16_RANGE
  /\ 0 < Len(hd.path) /\ Len(hd.path) < U16_RANGE
  /\ FixedFieldBytes + Len(hd.name) + Len(hd.path) = FILE_HEADER_SIZE

\* ------------------------------------------------- the source's cursor
\* C34: in every state of the decrypting source the cursor pos is at most
\* the length of the buffer, and a read made after the read that
\* signalled the end of a stream of at least one chunk returns 0 again; it
\* does not fail.
CursorWithinBuffer ==
  mode = "adapter" => dr.pos <= Len(dr.buffer) /\ aphase # "panic"

\* ... the cursor is within the buffer up to the read that returns 0
CursorWithinBufferBeforeEnd ==
  (mode = "adapter" /\ aphase \notin {"eof", "panic"}) => dr.pos <= Len(dr.buffer)

\* ... and it is left past the emptied buffer by that read, unless the
\* stream was empty
CursorLeftBehind ==
  (mode = "adapter" /\ aphase = "eof") =>
    /\ dr.buffer = <<>>
    /\ plain # <<>> => dr.pos > 0

\* a read after the end of a stream of one byte, which panicked
ReadAfterEndPanics ==
  /\ mode = "adapter" /\ aphase = "panic"
  /\ Len(plain) = 1 /\ served = plain
  /\ dr.pos = 1 /\ dr.buffer = <<>>

\* ------------------------------------------------- the sink after a failed write
\* every byte of a sequence has the keystream on it n times
Transformed(cells, n) == \A i \in 1..Len(cells) : Cardinality(cells[i].m) = n

\* C35: every plaintext byte the sink accepted is transformed once, also
\* when an inner write fails: after write returned an error the buffer
\* holds no bytes that are transformed already, so that a later write or
\* flush does not transform them a second time.
TransformedOnce ==
  mode = "adapter" => Transformed(ew.buffer, 0) /\ Transformed(wire, 1)

\* ... which is so as long as no inner write has failed
TransformedOnceUnfailed ==
  (mode = "adapter" /\ "failed" \notin hist) =>
    Transformed(ew.buffer, 0) /\ Transformed(wire, 1)

\* after a failed write the sink went on and wrote a chunk that has the
\* keystream of two offsets on it
TransformedTwice ==
  /\ mode = "adapter" /\ "failed" \in hist
  /\ Len(wire) >= CHUNK
  /\ Transformed(Take(wire, CHUNK), 2)

\* ------------------------------------------------- where the decrypted file goes
\* a path lies in the directory dir or below it
Inside(p, dir) ==
  \/ Resolved(p[1]) = Resolved(dir)
  \/ Len(p[1]) > Len(dir) /\ SubSeq(p[1], 1, Len(dir) + 1) = dir \o <<47>>

\* decrypt_file has created its output file for a header that is not packed
OutputCreated == DecryptCall /\ ~op.packed /\ op.out_file

\* C38: for a header that is not packed, decrypt_file creates its output
\* file inside output_dir whatever name the header carries, an absolute
\* path or one with separators or '..' components included.
OutputInsideOutputDir == OutputCreated => Inside(op.file_path, op.output_dir)

\* ... which is so for the names that have no separator in them
OutputInsideForPlainNames ==
  (OutputCreated /\ \A i \in 1..Len(op.name) : op.name[i] # 47) =>
    Inside(op.file_path, op.output_dir)

\* the header named "/B/g", the caller asked for directory "A", and the
\* decrypted file was written to "B"
OutputOutside ==
  /\ OutputCreated /\ op.pc = "done" /\ op.result = "ok"
  /\ scn.tamper = "name_abs"
  /\ op.output_dir = <<65>>
  /\ op.file_path = <<<<66>>, <<103>>>>
  /\ Exists(fs, <<<<66>>, <<103>>>>) /\ ~Exists(scn.before, <<<<66>>, <<103>>>>)

\* ------------------------------------------------- what the front end shows
\* the result messages of operation k that were sent: those waiting on the
\* two result channels and the one the idle closure consumed
ResultsOf(k) ==
  Cardinality({i \in 1..Len(ui.e_res) : ui.e_res[i].op = k})
    + Cardinality({i \in 1..Len(ui.d_res) : ui.d_res[i].op = k})
    + (IF k \in ui.consumed THEN 1 ELSE 0)

\* the grid is insensitive and nothing is left that would make it sensitive
ControlsLost ==
  ~ui.sensitive /\ ui.workers = {} /\ ui.e_res = <<>> /\ ui.d_res = <<>>

\* C32: every operation started from the front end sends exactly one result
\* message on its result channel, after which the idle closure makes the
\* controls sensitive again; no operation ends without a result, leaving
\* the controls insensitive for good.
EveryOperationReports ==
  mode = "ui" =>
    /\ \A e \in ui.ended : ResultsOf(e.op) = 1
    /\ ~ControlsLost

\* ... which is so for the operations whose call returned, Ok or Err
ReturnedOperationReports ==
  mode = "ui" =>
    /\ \A e \in ui.ended : e.out # "panic" => ResultsOf(e.op) = 1
    /\ ControlsLost => \E e \in ui.ended : e.out = "panic"

\* an operation's worker panicked, and the grid stays insensitive
PanickedOperationSilent ==
  /\ mode = "ui" /\ ControlsLost
  /\ ui.started = 1 /\ ui.ended = {[op |-> 1, out |-> "panic"]}
  /\ ui.progress = <<>> /\ ui.pc = "progress"

\* the samples that wait on the progress channel
Queued == {ui.progress[i] : i \in 1..Len(ui.progress)}

\* C36: once the idle closure has consumed the result of an operation and
\* set the bar to 0.0, no sample of that operation waits on the progress
\* channel, and none is shown afterwards: the bar stays at 0.0 until the
\* next operation sends a sample.
NoStaleSample ==
  mode = "ui" =>
    \A s \in (Queued \cup {ui.fraction}) \ {NoSample} : s.op \notin ui.consumed

\* the bar shows a sample of the first operation while the second runs
StaleSampleShown ==
  /\ mode = "ui"
  /\ 1 \in ui.consumed /\ ui.fraction.op = 1
  /\ \E w \in ui.workers : w.op = 2

\* ... a sample reaches the bar only from the channel, in the order sent
SamplesInOrder ==
  [][(mode = "ui" /\ ui'.fraction # ui.fraction /\ ui'.fraction # NoSample) =>
       ui.progress # <<>> /\ ui'.fraction = Head(ui.progress)]_vars

\* the operations started whose result the idle closure has not consumed
Pending == (1..ui.started) \ ui.consumed

\* C37: at most one worker started from the front end is in flight at any
\* time: the controls are insensitive from the click that spawns a worker
\* until the idle closure has consumed that worker's result, so that no
\* second worker is spawned in between.
OneWorker ==
  mode = "ui" =>
    /\ Cardinality(ui.workers) <= 1
    /\ Cardinality(Pending) <= 1
    /\ Pending # {} => ~ui.sensitive
    /\ \A w \in ui.workers : w.op \in Pending

\* a second worker in flight, after the result of the first was consumed
OneWorkerSeen ==
  /\ mode = "ui" /\ ui.started = 2
  /\ ui.consumed = {1} /\ ui.workers # {}
  /\ ~ui.sensitive

====
